---- MODULE Spec2Model ----
(***************************************************************************)
(* Cross-exchange arbitrage analyser: spread screening, volatility gate,   *)
(* order-book fill simulation, fee model and risk validation.              *)
(*                                                                         *)
(* Numbers.  The screening stage works on ticker prices; they are modelled *)
(* as integers (price ticks) and the spread as an exact fraction.  The     *)
(* fill simulator and the analyser work on decimal.Decimal values under    *)
(* Python's default context (28 significant digits, ROUND_HALF_EVEN); a    *)
(* Decimal is modelled by its value: sign, decimal digits (most            *)
(* significant first, no leading or trailing zero) and exponent, and every *)
(* arithmetic operation rounds its exact result to the context precision.  *)
(***************************************************************************)
EXTENDS Integers, Sequences, FiniteSets, Bags, TLC

(***************************************************************************)
(* Natural numbers as digit sequences (most significant digit first, no    *)
(* leading zero; <<>> is 0).  TLC integers are 32 bits wide, Decimal       *)
(* coefficients are up to 28 digits.                                       *)
(***************************************************************************)
Front(s) == IF s = <<>> THEN <<>> ELSE SubSeq(s, 1, Len(s) - 1)

LastDigit(s) == IF s = <<>> THEN 0 ELSE s[Len(s)]

Zeros(n) == [i \in 1..n |-> 0]

\* s without its leading / trailing zeros
StripLead(s) ==
    IF \A i \in 1..Len(s) : s[i] = 0 THEN <<>>
    ELSE LET j == CHOOSE j \in 1..Len(s) :
                      s[j] # 0 /\ \A i \in 1..(j - 1) : s[i] = 0
         IN  SubSeq(s, j, Len(s))

StripTrail(s) ==
    IF \A i \in 1..Len(s) : s[i] = 0 THEN <<>>
    ELSE LET j == CHOOSE j \in 1..Len(s) :
                      s[j] # 0 /\ \A i \in (j + 1)..Len(s) : s[i] = 0
         IN  SubSeq(s, 1, j)

RECURSIVE NatOfInt(_)
NatOfInt(n) == IF n = 0 THEN <<>> ELSE Append(NatOfInt(n \div 10), n % 10)

\* a < b, both without leading zeros
NatLess(a, b) ==
    IF Len(a) # Len(b) THEN Len(a) < Len(b)
    ELSE IF a = b THEN FALSE
    ELSE LET j == CHOOSE j \in 1..Len(a) :
                      a[j] # b[j] /\ \A i \in 1..(j - 1) : a[i] = b[i]
         IN  a[j] < b[j]

\* a with leading zeros up to n digits
PadTo(a, n) == Zeros(n - Len(a)) \o a

\* The sequence f[1], ..., f[n], every element computed once
Digits(f, n) == SubSeq(f, 1, n)

\* The carry into column i of the n column sums col: it comes from the
\* nearest lower column whose sum is not 9
CarryInto(col, n, i) ==
    IF \A j \in (i + 1)..n : col[j] = 9 THEN 0
    ELSE IF col[CHOOSE j \in (i + 1)..n :
                    col[j] # 9 /\ \A m \in (i + 1)..(j - 1) : col[m] = 9] > 9
         THEN 1 ELSE 0

SumColumns(col, n) ==
    StripLead(Digits([i \in 1..n |-> (col[i] + CarryInto(col, n, i)) % 10], n))

AddPadded(x, y, n) == SumColumns(Digits([i \in 1..n |-> x[i] + y[i]], n), n)

AddTo(a, b, n) == AddPadded(PadTo(a, n), PadTo(b, n), n)

\* a + b, digit by digit
NatAdd(a, b) == AddTo(a, b, (IF Len(a) > Len(b) THEN Len(a) ELSE Len(b)) + 1)

\* The borrow into column i of the n column differences dif: it comes from
\* the nearest lower column where the two numbers differ
BorrowInto(dif, n, i) ==
    IF \A j \in (i + 1)..n : dif[j] = 0 THEN 0
    ELSE IF dif[CHOOSE j \in (i + 1)..n :
                    dif[j] # 0 /\ \A m \in (i + 1)..(j - 1) : dif[m] = 0] < 0
         THEN 1 ELSE 0

DifColumns(dif, n) ==
    StripLead(Digits([i \in 1..n |-> (dif[i] - BorrowInto(dif, n, i) + 10) % 10], n))

SubPadded(a, y, n) == DifColumns(Digits([i \in 1..n |-> a[i] - y[i]], n), n)

\* a - b for a >= b
NatSub(a, b) == SubPadded(a, PadTo(b, Len(a)), Len(a))

\* a * d for 0 <= d <= 10: the units and the tens of the digit products
NatMulDigit(a, d) ==
    NatAdd(StripLead(Digits([i \in 1..Len(a) |-> (a[i] * d) % 10], Len(a))),
           StripLead(Digits([i \in 1..(Len(a) + 1) |->
                                IF i > Len(a) THEN 0 ELSE (a[i] * d) \div 10],
                            Len(a) + 1)))

\* The sum of the values of f, a function to the naturals
Sum(f) == BagCardinality([x \in {y \in DOMAIN f : f[y] > 0} |-> f[x]])

\* Column k of the schoolbook product: the sum of the a[i] * b[j] with i + j = k
ProductColumn(a, b, k) ==
    Sum([i \in {m \in 1..Len(a) : k - m \in 1..Len(b)} |-> a[i] * b[k - i]])

\* The digit sequence made of digit number p (0 the units) of each of the n
\* column sums, shifted p places to the left
ColumnDigits(col, n, p) ==
    StripLead(Digits([k \in 1..(n + p) |->
                         IF k > n THEN 0 ELSE (col[k] \div (10 ^ p)) % 10], n + p))

\* The number whose n column sums are col, each below 10000
ColumnsValue(col, n) ==
    NatAdd(NatAdd(ColumnDigits(col, n, 0), ColumnDigits(col, n, 1)),
           NatAdd(ColumnDigits(col, n, 2), ColumnDigits(col, n, 3)))

ProductColumns(a, b, n) == ColumnsValue(Digits([k \in 1..n |-> ProductColumn(a, b, k)], n), n)

\* a * b
NatMul(a, b) ==
    IF a = <<>> \/ b = <<>> THEN <<>> ELSE ProductColumns(a, b, Len(a) + Len(b))

\* The value of a short digit sequence
NatToInt(a) == Sum([i \in 1..Len(a) |-> a[i] * 10 ^ (Len(a) - i)])

\* The q in lo..hi with q * b <= r < (q + 1) * b
QuotBetween(r, b, lo, hi) ==
    IF lo = hi THEN lo
    ELSE CHOOSE q \in lo..hi : /\ ~NatLess(r, NatMulDigit(b, q))
                               /\ NatLess(r, NatMulDigit(b, q + 1))

\* The bracket of r \div b that the leading digits rh of r and bh of b give
QuotBracket(r, b, rh, bh) ==
    QuotBetween(r, b, rh \div (bh + 1),
                IF (rh + 1) \div bh > 9 THEN 9 ELSE (rh + 1) \div bh)

\* One digit of long division, for r < 10 * b: the q with q * b <= r < (q + 1) * b.
\* The leading digits of r and b bracket q; the bracket is searched exactly.
QuotDigit(r, b) ==
    IF NatLess(r, b) THEN 0
    ELSE IF Len(b) <= 7 THEN NatToInt(r) \div NatToInt(b)
    ELSE QuotBracket(r, b, NatToInt(SubSeq(r, 1, Len(r) - (Len(b) - 7))),
                     NatToInt(SubSeq(b, 1, 7)))

\* One step of long division: st = <<quotient digits so far, remainder>>, the
\* remainder extended by the next digit is r, whose quotient digit is q
DivDigit(st, r, b, q) == <<Append(st[1], q), NatSub(r, NatMulDigit(b, q))>>

DivRemainder(st, r, b) == DivDigit(st, r, b, QuotDigit(r, b))

LongDivStep(st, d, b) == DivRemainder(st, StripLead(Append(st[2], d)), b)

\* Long division by b # 0 continued over the digits a[lo..hi] from the state
\* st = <<quotient digits so far, remainder>>.  The digits are taken in eight
\* runs, one after the other.
RECURSIVE LongDiv(_, _, _, _, _)
LongDiv(a, b, lo, hi, st) ==
    IF lo > hi THEN st
    ELSE IF lo = hi THEN LongDivStep(st, a[lo], b)
    ELSE LET n  == (hi - lo + 8) \div 8
             end(j) == IF lo + j * n - 1 < hi THEN lo + j * n - 1 ELSE hi
             s1 == LongDiv(a, b, lo, end(1), st)
             s2 == LongDiv(a, b, lo + n, end(2), s1)
             s3 == LongDiv(a, b, lo + 2 * n, end(3), s2)
             s4 == LongDiv(a, b, lo + 3 * n, end(4), s3)
             s5 == LongDiv(a, b, lo + 4 * n, end(5), s4)
             s6 == LongDiv(a, b, lo + 5 * n, end(6), s5)
             s7 == LongDiv(a, b, lo + 6 * n, end(7), s6)
             s8 == LongDiv(a, b, lo + 7 * n, end(8), s7)
         IN  <<s1, s2, s3, s4, s5, s6, s7, s8>>[8]

StripQuotient(qr) == <<StripLead(qr[1]), qr[2]>>

NatDivMod(a, b) == StripQuotient(LongDiv(a, b, 1, Len(a), <<<<>>, <<>>>>))

(***************************************************************************)
(* decimal.Decimal under the default context.  DecPrec is the context      *)
(* precision getcontext().prec; rounding is ROUND_HALF_EVEN.               *)
(***************************************************************************)
DecPrec == 28

DecZero == [neg |-> FALSE, dig |-> <<>>, exp |-> 0]

\* (+/-) d * 10^exp with the trailing zeros of d moved into the exponent
DecStripped(neg, d, t, exp) ==
    IF d = <<>> THEN DecZero
    ELSE [neg |-> neg, dig |-> t, exp |-> exp + (Len(d) - Len(t))]

\* The Decimal of value (+/-) dig * 10^exp, in canonical form
DecNorm(neg, dig, exp) == DecStripped(neg, StripLead(dig), StripTrail(StripLead(dig)), exp)

\* Half to even: whether keep is rounded up when rest is cut off
RoundsUp(keep, rest) ==
    \/ rest[1] > 5
    \/ rest[1] = 5 /\ \E i \in 2..Len(rest) : rest[i] # 0
    \/ rest[1] = 5 /\ (\A i \in 2..Len(rest) : rest[i] = 0) /\ LastDigit(keep) % 2 = 1

RoundCut(keep, rest) == IF RoundsUp(keep, rest) THEN NatAdd(keep, <<1>>) ELSE keep

\* d, without leading zeros, cut to p digits
RoundDigits(neg, d, exp, p) ==
    IF Len(d) <= p THEN DecNorm(neg, d, exp)
    ELSE DecNorm(neg, RoundCut(SubSeq(d, 1, p), SubSeq(d, p + 1, Len(d))),
                 exp + (Len(d) - p))

\* Rounding to p significant digits, half to even
RoundTo(neg, dig, exp, p) == RoundDigits(neg, StripLead(dig), exp, p)

\* Context rounding (Decimal._fix): keep DecPrec digits
DecRound(neg, dig, exp) == RoundTo(neg, dig, exp, DecPrec)

\* Decimal(str(n)) for an integer n, and n * 10^e
DecOfInt(n) == IF n < 0 THEN DecNorm(TRUE, NatOfInt(-n), 0)
               ELSE DecNorm(FALSE, NatOfInt(n), 0)

ShiftExp(d, e) == IF d.dig = <<>> THEN DecZero ELSE [d EXCEPT !.exp = d.exp + e]

DecOf(n, e) == ShiftExp(DecOfInt(n), e)

\* The two coefficients brought to the common (smaller) exponent
MinExp(x, y) == IF x.exp < y.exp THEN x.exp ELSE y.exp

Scaled(x, e) == IF x.dig = <<>> THEN <<>> ELSE x.dig \o Zeros(x.exp - e)

DecIsZero(x) == x.dig = <<>>

DecNeg(x) == IF DecIsZero(x) THEN x ELSE [x EXCEPT !.neg = ~x.neg]

\* The sum of (+/-) a and (+/-) b at the common exponent e, rounded
AddScaled(xneg, a, yneg, b, e) ==
    DecRound(IF xneg = yneg \/ ~NatLess(a, b) THEN xneg ELSE yneg,
             IF xneg = yneg THEN NatAdd(a, b)
             ELSE IF NatLess(a, b) THEN NatSub(b, a) ELSE NatSub(a, b),
             e)

\* Decimal.__add__: the exact sum, rounded
DecAdd(x, y) ==
    AddScaled(x.neg, Scaled(x, MinExp(x, y)), y.neg, Scaled(y, MinExp(x, y)),
              MinExp(x, y))

\* Decimal.__sub__
DecSub(x, y) == DecAdd(x, DecNeg(y))

\* Decimal.__mul__: the exact product, rounded
DecMul(x, y) ==
    IF DecIsZero(x) \/ DecIsZero(y) THEN DecZero
    ELSE DecRound(x.neg # y.neg, NatMul(x.dig, y.dig), x.exp + y.exp)

\* The quotient's coefficient: its last digit adjusted when the division is
\* inexact, so that the rounding sees the remainder
DivCoeff(qr) ==
    IF qr[2] # <<>> /\ LastDigit(qr[1]) % 5 = 0 THEN NatAdd(qr[1], <<1>>) ELSE qr[1]

\* x / y with the coefficient of x shifted by shift digits
DivShifted(x, y, shift) ==
    DecRound(x.neg # y.neg, DivCoeff(NatDivMod(x.dig \o Zeros(shift), y.dig)),
             x.exp - y.exp - shift)

\* Decimal.__truediv__ (y # 0): the integer quotient of the coefficients
\* shifted to DecPrec + 1 digits, then rounded
DecDiv(x, y) ==
    IF DecIsZero(x) THEN DecZero
    ELSE DivShifted(x, y, Len(y.dig) - Len(x.dig) + DecPrec + 1)

\* Comparisons are exact
DecLess(x, y) ==
    LET e == MinExp(x, y)
        a == Scaled(x, e)
        b == Scaled(y, e)
    IN  IF x.neg # y.neg THEN x.neg
        ELSE IF x.neg THEN NatLess(b, a) ELSE NatLess(a, b)

DecLeq(x, y) == ~DecLess(y, x)

DecEq(x, y) == x = y

\* Python's min(a, b) / max(a, b): the first argument unless the second is smaller / larger
DecMin(x, y) == IF DecLess(y, x) THEN y ELSE x

DecMax(x, y) == IF DecLess(x, y) THEN y ELSE x


(***************************************************************************)
(* float(): a binary64 keeps 53 bits, between 15 and 17 significant        *)
(* decimal digits, and str() of a float prints at most 17.  The model      *)
(* keeps FloatDigits significant digits, so float() of a Decimal (and the  *)
(* Decimal(str(float)) round trip) is exact for short values and lossy for *)
(* a full-precision Decimal.                                               *)
(***************************************************************************)
FloatDigits == 17

PyFloat(x) == RoundTo(x.neg, x.dig, x.exp, FloatDigits)

None == [tag |-> "None"]

(***************************************************************************)
(* State                                                                   *)
(***************************************************************************)
VARIABLES
    \* find_common_coins.main and spread_first: one screening pass
    exchanges_data,     \* fetching(): exchange -> list of ticker items
    common,             \* common_coins(exchanges_data)
    ci,                 \* the coin the loop of spread_first visits next
    coins_with_spreads, \* the candidates appended so far
    screen_pc,          \* "fetch" | "loop" | "return" | "done" | "idle"
    \* process_coin: the volatility gate on one candidate
    candidate,          \* the SpreadCandidate handed in
    metrics,            \* await volatility(coin): exchange -> MetricSet, or None
    buy_i,              \* position of the outer loop in bid_exchanges_in_range
    sell_i,             \* position of the inner loop in ask_exchanges_in_range
    valid_combinations, \* the pairs appended so far
    coin_pc,            \* "await" | "loop" | "except" | "return" | "done" | "idle"
    coin_result,        \* what process_coin returned: None or [items |-> the list]
    \* calculate_split_orders: one walk over one side of an order book
    snapshot,       \* the parsed exchange book: [bids, asks], <<price, qty>> pairs
    is_buy,         \* the side walked: asks for a buy, bids for a sell
    target_volume,  \* notional (buy) or quantity (sell) to reach
    orderbook,      \* get_orderbook_data: the levels as Decimal pairs
    k,              \* the level the loop visits next
    orders,         \* the fills so far
    total_volume,
    total_cost,
    split_pc,       \* "loop" | "return" | "done" | "idle"
    plan,           \* the returned plan, or None
    \* analyze_arbitrage_opportunities: one cycle of the order-book stage
    analyzer,             \* the ArbitrageAnalyzer's configuration
    risk_manager,         \* its AdvancedRiskManager
    main_second_results,  \* the candidates handed over by the volatility stage
    tasks,                \* one process_opportunity coroutine per candidate
    opportunities,        \* the returned list, or None before the return
    opp_pc,               \* "gather" | "done" | "idle"
    \* AdvancedRiskManager driven through its methods, one call at a time
    risk_call,      \* the call that has just returned: method, arguments, result
    pnl_log,        \* the amounts passed to update_daily_pnl since the last reset
    value_log,      \* the account values passed to update_drawdown
    trades_added,   \* the trades passed to add_trade_to_history
    \* main: one cycle from main_second to the ranked list, as coroutines
    cycle_pc,       \* "second", "third" or "returned"; "idle" outside a cycle
    price_tasks,    \* process_coin coroutines: the price fetches of volatility(coin)
    fetch_tasks,    \* process_opportunity coroutines: the requests of collect_orderbooks
    cycle_result,   \* the list analyze_arbitrage_opportunities returned
    \* fetch_data.fetching: the ticker requests of one aggregation
    ticker_tasks,       \* exchange -> [state, data] of its fetch_with_semaphore
    ticker_semaphore,   \* the free places of asyncio.Semaphore(10)
    fetching_pc,        \* "gather" | "returned" | "raised" | "idle"
    fetching_result,    \* find_common_coins.main: [exchanges_data, common], or None
    \* calculate_metrics.calculate_all_metrics: one call
    prices,             \* the price series handed in
    metrics_pc,         \* "call" | "done" | "idle"
    all_metrics,        \* [raised, metrics]: what the call did
    \* spread_process_third.main: the loop around the cycles
    main_args,          \* the command line: [loop, interval]
    main_pc,            \* "start" | "cycle" | "after" | "sleep" | "exit" | "idle"
    cycles,             \* the cycles started, counted up to MaxCycles
    outcomes            \* how the last cycles ended, MaxCycles of them at most

screenVars == <<exchanges_data, common, ci, coins_with_spreads, screen_pc>>

fillVars == <<snapshot, is_buy, target_volume, orderbook, k, orders,
              total_volume, total_cost, split_pc, plan>>

coinVars == <<candidate, metrics, buy_i, sell_i, valid_combinations, coin_pc,
              coin_result>>

oppVars == <<analyzer, risk_manager, main_second_results, tasks, opportunities,
             opp_pc>>

riskVars == <<risk_call, pnl_log, value_log, trades_added>>

cycleVars == <<cycle_pc, price_tasks, fetch_tasks, cycle_result>>

fetchVars == <<ticker_tasks, ticker_semaphore, fetching_pc, fetching_result>>

metricVars == <<prices, metrics_pc, all_metrics>>

mainVars == <<main_args, main_pc, cycles, outcomes>>

pipelineVars == <<screenVars, coinVars, fillVars, oppVars, riskVars, cycleVars>>

driverVars == <<fetchVars, metricVars, mainVars>>

vars == <<pipelineVars, driverVars>>

\* A stage that is not running
ScreenIdle ==
    /\ exchanges_data = <<>>
    /\ common = <<>>
    /\ ci = 1
    /\ coins_with_spreads = <<>>
    /\ screen_pc = "idle"

CoinIdle ==
    /\ candidate = None
    /\ metrics = None
    /\ buy_i = 1
    /\ sell_i = 1
    /\ valid_combinations = <<>>
    /\ coin_pc = "idle"
    /\ coin_result = None

FillIdle ==
    /\ snapshot = [bids |-> <<>>, asks |-> <<>>]
    /\ is_buy = TRUE
    /\ target_volume = None
    /\ orderbook = <<>>
    /\ k = 1
    /\ orders = <<>>
    /\ total_volume = None
    /\ total_cost = None
    /\ split_pc = "idle"
    /\ plan = None

OppIdle ==
    /\ analyzer = None
    /\ risk_manager = None
    /\ main_second_results = <<>>
    /\ tasks = <<>>
    /\ opportunities = None
    /\ opp_pc = "idle"

RiskIdle ==
    /\ risk_call = None
    /\ pnl_log = <<>>
    /\ value_log = <<>>
    /\ trades_added = <<>>

CycleIdle ==
    /\ cycle_pc = "idle"
    /\ price_tasks = <<>>
    /\ fetch_tasks = <<>>
    /\ cycle_result = None

FetchIdle ==
    /\ ticker_tasks = <<>>
    /\ ticker_semaphore = 0
    /\ fetching_pc = "idle"
    /\ fetching_result = None

MetricIdle ==
    /\ prices = <<>>
    /\ metrics_pc = "idle"
    /\ all_metrics = None

MainIdle ==
    /\ main_args = None
    /\ main_pc = "idle"
    /\ cycles = 0
    /\ outcomes = <<>>

PipelineIdle ==
    /\ ScreenIdle
    /\ CoinIdle
    /\ FillIdle
    /\ OppIdle
    /\ RiskIdle
    /\ CycleIdle

DriverIdle ==
    /\ FetchIdle
    /\ MetricIdle
    /\ MainIdle

(***************************************************************************)
(* find_common_coins.common_coins: the symbols quoted on two or more        *)
(* exchanges, each with its quote per exchange.  Dicts keep insertion       *)
(* order: exchanges in the order of exchanges_data, symbols in the order    *)
(* of first appearance.                                                     *)
(***************************************************************************)
Exchanges == {"A", "B", "C"}

ExchangeOrder == <<"A", "B", "C">>

\* The symbols of the items of one exchange not in seen, in order
RECURSIVE NewSymbols(_, _)
NewSymbols(items, seen) ==
    IF items = <<>> THEN <<>>
    ELSE IF items[1].symbol \in seen THEN NewSymbols(Tail(items), seen)
    ELSE <<items[1].symbol>> \o NewSymbols(Tail(items), seen \cup {items[1].symbol})

RECURSIVE SymbolOrder(_, _, _)
SymbolOrder(data, i, seen) ==
    IF i > Len(ExchangeOrder) THEN <<>>
    ELSE LET new == NewSymbols(data[ExchangeOrder[i]], seen)
         IN  new \o SymbolOrder(data, i + 1, seen \cup {new[j] : j \in 1..Len(new)})

\* symbol_exchange_data[symbol][exchange]: the last item of the symbol wins
QuoteOf(items, symbol) ==
    LET at == {j \in 1..Len(items) : items[j].symbol = symbol}
        j  == CHOOSE j \in at : \A m \in at : m <= j
    IN  [bid_price |-> items[j].bid_price, ask_price |-> items[j].ask_price]

CoinOf(data, symbol) ==
    LET on == {e \in Exchanges :
                  \E j \in 1..Len(data[e]) : data[e][j].symbol = symbol}
    IN  [symbol |-> symbol, quotes |-> [e \in on |-> QuoteOf(data[e], symbol)]]

common_coins(data) ==
    LET symbols == SymbolOrder(data, 1, {})
        coins   == [j \in 1..Len(symbols) |-> CoinOf(data, symbols[j])]
        Multi(coin) == Cardinality(DOMAIN coin.quotes) >= 2
    IN  SelectSeq(coins, Multi)

(***************************************************************************)
(* spread_process_first.compute_spread_percent.  Prices are in ticks       *)
(* (integers); the spread ((max_ask - min_bid) / min_bid) * 100 is kept as *)
(* the exact fraction num / den.                                           *)
(***************************************************************************)
NoSpread == [spread_percent |-> None, min_bid |-> None,
             bid_exchanges_in_range |-> <<>>, ask_exchanges_in_range |-> <<>>]

MinOf(S) == CHOOSE x \in S : \A y \in S : x <= y

MaxOf(S) == CHOOSE x \in S : \A y \in S : y <= x

\* A spread over the wrong base: (max_ask - min_bid) / max_ask
SpreadPercentOverAsk(min_bid, max_ask) ==
    [num |-> (max_ask - min_bid) * 100, den |-> max_ask]

\* ((max_ask - min_bid) / min_bid) * 100
SpreadPercent(min_bid, max_ask) ==
    [num |-> (max_ask - min_bid) * 100, den |-> min_bid]

compute_spread_percent(coin) ==
    LET bid_on == {e \in DOMAIN coin.quotes : coin.quotes[e].bid_price > 0}
        ask_on == {e \in DOMAIN coin.quotes : coin.quotes[e].ask_price > 0}
        bid_prices == [e \in bid_on |-> coin.quotes[e].bid_price]
        ask_prices == [e \in ask_on |-> coin.quotes[e].ask_price]
    IN  IF bid_on = {} \/ ask_on = {} THEN NoSpread
        ELSE LET min_bid == MinOf({bid_prices[e] : e \in bid_on})
                 max_ask == MaxOf({ask_prices[e] : e \in ask_on})
                 BidInRange(e) == /\ e \in bid_on
                                  /\ min_bid <= bid_prices[e]
                                  /\ bid_prices[e] <= min_bid * 1
                 AskInRange(e) == /\ e \in ask_on
                                  /\ max_ask * 1 <= ask_prices[e]
                                  /\ ask_prices[e] <= max_ask
             IN  IF min_bid >= max_ask THEN NoSpread
                 ELSE [spread_percent |-> SpreadPercent(min_bid, max_ask),
                       min_bid |-> min_bid,
                       bid_exchanges_in_range |-> SelectSeq(ExchangeOrder, BidInRange),
                       ask_exchanges_in_range |-> SelectSeq(ExchangeOrder, AskInRange)]

(***************************************************************************)
(* spread_process_first.spread_first                                       *)
(***************************************************************************)
SpreadLow == 4

SpreadHigh == 75

\* A band that leaves its upper end out: 4 <= spread_percent < 75
InBandBelowHigh(spread) == /\ SpreadLow * spread.den <= spread.num
                           /\ spread.num < SpreadHigh * spread.den

\* 4 <= spread_percent <= 75
InBand(spread) == /\ SpreadLow * spread.den <= spread.num
                  /\ spread.num <= SpreadHigh * spread.den

Elems(s) == {s[j] : j \in 1..Len(s)}

\* max() of a list of exchange names: the last in alphabetical order
MaxName(names) ==
    LET at == {j \in 1..Len(ExchangeOrder) : ExchangeOrder[j] \in Elems(names)}
    IN  ExchangeOrder[MaxOf(at)]

\* A guard that asks for every bid exchange to be an ask exchange
OverlapAll(bid_exchanges, ask_exchanges) ==
    \A e \in Elems(bid_exchanges) : e \in Elems(ask_exchanges)

\* any(exchange in ask_exchanges_in_range for exchange in bid_exchanges_in_range)
Overlap(bid_exchanges, ask_exchanges) ==
    \E e \in Elems(bid_exchanges) : e \in Elems(ask_exchanges)

\* One iteration of the loop: the list with the coin's candidate appended, or unchanged
spread_first_iteration(acc, coin) ==
    LET r == compute_spread_percent(coin)
    IN  IF r.spread_percent # None /\ InBand(r.spread_percent)
        THEN IF Overlap(r.bid_exchanges_in_range, r.ask_exchanges_in_range)
             THEN acc
             ELSE Append(acc,
                      [symbol |-> coin.symbol,
                       bid_exchanges_in_range |-> r.bid_exchanges_in_range,
                       ask_exchanges_in_range |-> r.ask_exchanges_in_range,
                       spread_percent |-> r.spread_percent,
                       min_bid |-> r.min_bid,
                       max_ask |-> MaxName(r.ask_exchanges_in_range)])
        ELSE acc

(***************************************************************************)
(* The screening pass run step by step                                     *)
(***************************************************************************)
\* Ticker prices in ticks; 0 is what safe_float gives for a missing price
TickerPrices == {0, 100, 104, 175, 176}

\* What an exchange reports for the first symbol: nothing, or any quote
FirstItems ==
    {<<>>} \cup {<<[symbol |-> "S1", bid_price |-> b, ask_price |-> a]>> :
                    b \in TickerPrices, a \in TickerPrices}

\* The second symbol: unlisted, or bids {A: 100, B: 105}, asks {A: 102, B: 110}
SecondItems ==
    {[e \in Exchanges |-> <<>>],
     [e \in Exchanges |->
         IF e = "A" THEN <<[symbol |-> "S2", bid_price |-> 100, ask_price |-> 102]>>
         ELSE IF e = "B" THEN <<[symbol |-> "S2", bid_price |-> 105, ask_price |-> 110]>>
         ELSE <<>>]}

ScreenInit ==
    /\ DriverIdle
    /\ \E first \in [Exchanges -> FirstItems], second \in SecondItems :
           exchanges_data = [e \in Exchanges |-> first[e] \o second[e]]
    /\ common = <<>>
    /\ ci = 1
    /\ coins_with_spreads = <<>>
    /\ screen_pc = "fetch"
    /\ CoinIdle
    /\ FillIdle
    /\ OppIdle
    /\ RiskIdle
    /\ CycleIdle

\* find_common_coins.main: common_coins(await fetching())
CommonCoins ==
    /\ screen_pc = "fetch"
    /\ common' = common_coins(exchanges_data)
    /\ screen_pc' = IF common' = <<>> THEN "return" ELSE "loop"
    /\ UNCHANGED <<exchanges_data, ci, coins_with_spreads, coinVars, fillVars, oppVars, riskVars,
               cycleVars, driverVars>>

\* for coin in common_coins: ...
SpreadFirstStep ==
    /\ screen_pc = "loop"
    /\ ci <= Len(common)
    /\ coins_with_spreads' = spread_first_iteration(coins_with_spreads, common[ci])
    /\ ci' = ci + 1
    /\ screen_pc' = IF ci + 1 > Len(common) THEN "return" ELSE "loop"
    /\ UNCHANGED <<exchanges_data, common, coinVars, fillVars, oppVars, riskVars, cycleVars, driverVars>>

\* return coins_with_spreads
SpreadFirstReturn ==
    /\ screen_pc = "return"
    /\ screen_pc' = "done"
    /\ UNCHANGED <<exchanges_data, common, ci, coins_with_spreads, coinVars, fillVars, oppVars, riskVars,
               cycleVars, driverVars>>

ScreenNext == CommonCoins \/ SpreadFirstStep \/ SpreadFirstReturn

SpecScreen == ScreenInit /\ [][ScreenNext]_vars

\* What the screening rules say of a coin, read off its quotes
PositiveBids(coin) ==
    {coin.quotes[e].bid_price : e \in {x \in DOMAIN coin.quotes : coin.quotes[x].bid_price > 0}}

PositiveAsks(coin) ==
    {coin.quotes[e].ask_price : e \in {x \in DOMAIN coin.quotes : coin.quotes[x].ask_price > 0}}

SmallestBid(coin) == CHOOSE b \in PositiveBids(coin) : \A y \in PositiveBids(coin) : b <= y

LargestAsk(coin) == CHOOSE a \in PositiveAsks(coin) : \A y \in PositiveAsks(coin) : y <= a

HoldersOfSmallestBid(coin) ==
    {e \in DOMAIN coin.quotes : coin.quotes[e].bid_price = SmallestBid(coin)}

HoldersOfLargestAsk(coin) ==
    {e \in DOMAIN coin.quotes : coin.quotes[e].ask_price = LargestAsk(coin)}

SpreadDefined(coin) ==
    /\ PositiveBids(coin) # {}
    /\ PositiveAsks(coin) # {}
    /\ SmallestBid(coin) < LargestAsk(coin)

\* 4 <= (largest ask - smallest bid) / smallest bid * 100 <= 75
SpreadWithinBand(coin) ==
    /\ 4 * SmallestBid(coin) <= (LargestAsk(coin) - SmallestBid(coin)) * 100
    /\ (LargestAsk(coin) - SmallestBid(coin)) * 100 <= 75 * SmallestBid(coin)

Emitted(symbol) ==
    \E c \in 1..Len(coins_with_spreads) : coins_with_spreads[c].symbol = symbol

\* C1: for a coin with a positive bid and a positive ask, compute_spread_percent
\* returns no result when the smallest positive bid is >= the largest positive
\* ask, and otherwise the spread (max_ask - min_bid) / min_bid * 100 with
\* exactly the exchanges bidding min_bid and exactly those asking max_ask.
C1_ComputeSpreadPercent ==
    \A j \in 1..Len(common) :
        LET coin == common[j]
            r    == compute_spread_percent(coin)
        IN  (PositiveBids(coin) # {} /\ PositiveAsks(coin) # {}) =>
                IF SmallestBid(coin) >= LargestAsk(coin)
                THEN /\ r.spread_percent = None
                     /\ r.min_bid = None
                     /\ r.bid_exchanges_in_range = <<>>
                     /\ r.ask_exchanges_in_range = <<>>
                ELSE /\ r.spread_percent # None
                     /\ r.spread_percent.num * SmallestBid(coin)
                            = (LargestAsk(coin) - SmallestBid(coin)) * 100
                                  * r.spread_percent.den
                     /\ r.min_bid = SmallestBid(coin)
                     /\ Elems(r.bid_exchanges_in_range) = HoldersOfSmallestBid(coin)
                     /\ Elems(r.ask_exchanges_in_range) = HoldersOfLargestAsk(coin)

\* Bids {A: 100, B: 105}, asks {A: 102, B: 110} (10, 10.5, 10.2, 11 in ticks of
\* 0.1): spread 10, bid set {A}, ask set {B}
C1_Witness ==
    \E j \in 1..Len(common) :
        /\ common[j].symbol = "S2"
        /\ compute_spread_percent(common[j]).spread_percent.num
               = 10 * compute_spread_percent(common[j]).spread_percent.den
        /\ compute_spread_percent(common[j]).bid_exchanges_in_range = <<"A">>
        /\ compute_spread_percent(common[j]).ask_exchanges_in_range = <<"B">>

\* C2: every candidate spread_first emits has 4 <= spread_percent <= 75, both
\* ends included; every coin the loop has visited whose spread is defined, lies
\* in [4, 75] and whose bid and ask exchange sets are disjoint is emitted, and no
\* coin with a spread outside the band is.
C2_SpreadBand ==
    /\ \A c \in 1..Len(coins_with_spreads) :
           /\ 4 * coins_with_spreads[c].spread_percent.den
                  <= coins_with_spreads[c].spread_percent.num
           /\ coins_with_spreads[c].spread_percent.num
                  <= 75 * coins_with_spreads[c].spread_percent.den
    /\ \A j \in 1..Len(common) :
           j < ci =>
               /\ ( /\ SpreadDefined(common[j])
                    /\ SpreadWithinBand(common[j])
                    /\ HoldersOfSmallestBid(common[j])
                           \cap HoldersOfLargestAsk(common[j]) = {} )
                      => Emitted(common[j].symbol)
               /\ Emitted(common[j].symbol)
                      => SpreadDefined(common[j]) /\ SpreadWithinBand(common[j])

\* Both coins emitted, the first with a spread of exactly 75
C2_Witness ==
    /\ screen_pc = "done"
    /\ Len(coins_with_spreads) = 2
    /\ coins_with_spreads[1].symbol = "S1"
    /\ coins_with_spreads[1].spread_percent.num
           = 75 * coins_with_spreads[1].spread_percent.den

\* C3: in every emitted candidate the bid-exchange set and the ask-exchange set
\* are disjoint; a visited coin with an exchange in both sets is not emitted
\* at all.
C3_SelfArbitrageGuard ==
    /\ \A c \in 1..Len(coins_with_spreads) :
           Elems(coins_with_spreads[c].bid_exchanges_in_range)
               \cap Elems(coins_with_spreads[c].ask_exchanges_in_range) = {}
    /\ \A j \in 1..Len(common) :
           ( /\ j < ci
             /\ SpreadDefined(common[j])
             /\ HoldersOfSmallestBid(common[j])
                    \cap HoldersOfLargestAsk(common[j]) # {} )
               => ~Emitted(common[j].symbol)

\* A coin quoted validly on one exchange only, its spread in the band, dropped
C3_Witness ==
    /\ screen_pc = "done"
    /\ \E j \in 1..Len(common) :
           /\ SpreadDefined(common[j])
           /\ SpreadWithinBand(common[j])
           /\ Cardinality({e \in DOMAIN common[j].quotes :
                              common[j].quotes[e].bid_price > 0}) = 1
           /\ HoldersOfSmallestBid(common[j]) = HoldersOfLargestAsk(common[j])
           /\ ~Emitted(common[j].symbol)

\* C4 (as stated): a quote takes part in the screening only when both its bid
\* and its ask are positive: no exchange with a non-positive bid or ask is in
\* the bid-exchange set or the ask-exchange set compute_spread_percent returns.
C4_QuoteExclusion ==
    \A j \in 1..Len(common) :
        \A e \in Elems(compute_spread_percent(common[j]).bid_exchanges_in_range)
                 \cup Elems(compute_spread_percent(common[j]).ask_exchanges_in_range) :
            /\ common[j].quotes[e].bid_price > 0
            /\ common[j].quotes[e].ask_price > 0

(***************************************************************************)
(* spread_process_second: the volatility gate.  Metric values and the      *)
(* thresholds are in hundredths (1.2 is 120).                               *)
(***************************************************************************)
METRIC_THRESHOLDS ==
    [volatility        |-> <<-120, 120>>,
     adr               |-> <<-500, 500>>,
     mean_deviation    |-> <<-75, 75>>,
     roc               |-> <<-40, 40>>,
     max_drawdown      |-> <<-60, 60>>,
     sharpe_ratio      |-> <<-200, 200>>,
     var               |-> <<-5, 5>>,
     cvar              |-> <<-7, 7>>,
     calmar_ratio      |-> <<-500, 500>>,
     sortino_ratio     |-> <<-400, 400>>,
     momentum          |-> <<-5000, 5000>>,
     cumulative_return |-> <<-50, 50>>,
     omega_ratio       |-> <<-200, 200>>]

\* METRIC_THRESHOLDS.items(): the table in the order it is written
MetricOrder ==
    <<"volatility", "adr", "mean_deviation", "roc", "max_drawdown", "sharpe_ratio",
      "var", "cvar", "calmar_ratio", "sortino_ratio", "momentum", "cumulative_return",
      "omega_ratio">>

\* A check that has lost its lower end: value <= high
is_below_high(value, range_or_threshold) == value <= range_or_threshold[2]

\* is_within_range for a (low, high) tuple
is_within_range(value, range_or_threshold) ==
    range_or_threshold[1] <= value /\ value <= range_or_threshold[2]

\* The all(...) over the table from entry i on, as Python evaluates it: the
\* buy side, then (and) the sell side of each metric, stopping at the first
\* False; d.get(metric) of a missing metric is None, and comparing None with a
\* number raises TypeError
RECURSIVE all_within_thresholds(_, _, _)
all_within_thresholds(min_bid_metrics, max_ask_metrics, i) ==
    IF i > Len(MetricOrder) THEN "True"
    ELSE LET metric    == MetricOrder[i]
             threshold == METRIC_THRESHOLDS[metric]
         IN  IF metric \notin DOMAIN min_bid_metrics THEN "TypeError"
             ELSE IF ~is_within_range(min_bid_metrics[metric], threshold) THEN "False"
             ELSE IF metric \notin DOMAIN max_ask_metrics THEN "TypeError"
             ELSE IF ~is_within_range(max_ask_metrics[metric], threshold) THEN "False"
             ELSE all_within_thresholds(min_bid_metrics, max_ask_metrics, i + 1)

\* metrics.get(exchange, {})
MetricsGet(m, exchange) == IF exchange \in DOMAIN m THEN m[exchange] ELSE <<>>

\* The body of the inner loop for one (buy_exchange, sell_exchange):
\* [raised, valid_combinations]
process_pair(acc, coin, m, buy_exchange, sell_exchange) ==
    LET min_bid_metrics == MetricsGet(m, buy_exchange)
        max_ask_metrics == MetricsGet(m, sell_exchange)
    IN  IF DOMAIN min_bid_metrics = {} \/ DOMAIN max_ask_metrics = {}
        THEN [raised |-> FALSE, valid_combinations |-> acc]
        ELSE LET all == all_within_thresholds(min_bid_metrics, max_ask_metrics, 1)
             IN  IF all = "TypeError"
                 THEN [raised |-> TRUE, valid_combinations |-> acc]
                 ELSE IF /\ "volatility" \in DOMAIN min_bid_metrics
                         /\ "volatility" \in DOMAIN max_ask_metrics
                         /\ all = "True"
                         /\ is_within_range(min_bid_metrics["volatility"],
                                            METRIC_THRESHOLDS["volatility"])
                         /\ is_within_range(max_ask_metrics["volatility"],
                                            METRIC_THRESHOLDS["volatility"])
                 THEN [raised |-> FALSE,
                       valid_combinations |->
                           Append(acc,
                               [symbol |-> coin.symbol,
                                buy_exchange |-> buy_exchange,
                                sell_exchange |-> sell_exchange,
                                buy_exchange_volatility |-> min_bid_metrics["volatility"],
                                sell_exchange_volatility |-> max_ask_metrics["volatility"]])]
                 ELSE [raised |-> FALSE, valid_combinations |-> acc]

(***************************************************************************)
(* process_coin run step by step                                           *)
(***************************************************************************)
\* A MetricSet with every metric in the middle of its band
BaseMetrics == [name \in Elems(MetricOrder) |-> 0]

\* The metrics that go missing or to the ends of their band
VariedMetrics == {"volatility", "calmar_ratio", "omega_ratio"}

\* calculate_all_metrics: nothing, the base set, or the base set with one
\* metric dropped (NaN or too few candles), at an end of its band, or just
\* outside it
MetricSets ==
    {<<>>, BaseMetrics}
    \cup {[name \in Elems(MetricOrder) \ {v} |-> 0] : v \in VariedMetrics}
    \cup {[BaseMetrics EXCEPT ![v] = METRIC_THRESHOLDS[v][2] + d] :
             v \in VariedMetrics, d \in {0, 1}}
    \cup {[BaseMetrics EXCEPT ![v] = METRIC_THRESHOLDS[v][1] - d] :
             v \in VariedMetrics, d \in {0, 1}}

\* The candidates of the screening stage: disjoint, non-empty exchange lists
Candidates ==
    {[symbol |-> "S1",
      bid_exchanges_in_range |-> b, ask_exchanges_in_range |-> a] :
         b \in {SelectSeq(ExchangeOrder, LAMBDA e : e \in B) : B \in SUBSET Exchanges \ {{}}},
         a \in {SelectSeq(ExchangeOrder, LAMBDA e : e \in A) : A \in SUBSET Exchanges \ {{}}}}

\* volatility(coin): a MetricSet for each exchange of the candidate that
\* returned more than one candle, None when none did
VolatilityResults(coin) ==
    LET asked == Elems(coin.bid_exchanges_in_range) \cup Elems(coin.ask_exchanges_in_range)
    IN  {None} \cup UNION {[on -> MetricSets] : on \in SUBSET asked \ {{}}}

CoinInit ==
    /\ DriverIdle
    /\ candidate \in {c \in Candidates :
                         Elems(c.bid_exchanges_in_range)
                             \cap Elems(c.ask_exchanges_in_range) = {}}
    /\ metrics \in VolatilityResults(candidate)
    /\ buy_i = 1
    /\ sell_i = 1
    /\ valid_combinations = <<>>
    /\ coin_pc = "await"
    /\ coin_result = None
    /\ ScreenIdle
    /\ FillIdle
    /\ OppIdle
    /\ RiskIdle
    /\ CycleIdle

\* metrics = await volatility(coin); if metrics is None: return None
AwaitVolatility ==
    /\ coin_pc = "await"
    /\ coin_pc' = IF metrics = None THEN "done" ELSE "loop"
    /\ UNCHANGED <<candidate, metrics, buy_i, sell_i, valid_combinations, coin_result,
                   screenVars, fillVars, oppVars, riskVars, cycleVars, driverVars>>

\* One (buy_exchange, sell_exchange) of the two nested loops
PairStep ==
    /\ coin_pc = "loop"
    /\ LET r == process_pair(valid_combinations, candidate, metrics,
                             candidate.bid_exchanges_in_range[buy_i],
                             candidate.ask_exchanges_in_range[sell_i])
           last_sell == sell_i = Len(candidate.ask_exchanges_in_range)
           last_buy  == buy_i = Len(candidate.bid_exchanges_in_range)
       IN  /\ valid_combinations' = r.valid_combinations
           /\ sell_i' = IF last_sell THEN 1 ELSE sell_i + 1
           /\ buy_i' = IF last_sell THEN buy_i + 1 ELSE buy_i
           /\ coin_pc' = IF r.raised THEN "except"
                         ELSE IF last_sell /\ last_buy THEN "return" ELSE "loop"
    /\ UNCHANGED <<candidate, metrics, coin_result, screenVars, fillVars, oppVars, riskVars,
               cycleVars, driverVars>>

\* except Exception: return None
CoinExcept ==
    /\ coin_pc = "except"
    /\ coin_result' = None
    /\ coin_pc' = "done"
    /\ UNCHANGED <<candidate, metrics, buy_i, sell_i, valid_combinations,
                   screenVars, fillVars, oppVars, riskVars, cycleVars, driverVars>>

\* return valid_combinations if valid_combinations else None
CoinReturn ==
    /\ coin_pc = "return"
    /\ coin_result' = IF valid_combinations # <<>>
                      THEN [tag |-> "list", items |-> valid_combinations]
                      ELSE None
    /\ coin_pc' = "done"
    /\ UNCHANGED <<candidate, metrics, buy_i, sell_i, valid_combinations,
                   screenVars, fillVars, oppVars, riskVars, cycleVars, driverVars>>

CoinNext == AwaitVolatility \/ PairStep \/ CoinExcept \/ CoinReturn

SpecCoin == CoinInit /\ [][CoinNext]_vars

\* Every metric of the threshold table is present in the MetricSet and within
\* its band, both ends included
MetricSetPasses(set) ==
    \A name \in DOMAIN METRIC_THRESHOLDS :
        /\ name \in DOMAIN set
        /\ METRIC_THRESHOLDS[name][1] <= set[name]
        /\ set[name] <= METRIC_THRESHOLDS[name][2]

PairPasses(pair) ==
    /\ pair.buy_exchange \in Elems(candidate.bid_exchanges_in_range)
    /\ pair.sell_exchange \in Elems(candidate.ask_exchanges_in_range)
    /\ metrics # None
    /\ pair.buy_exchange \in DOMAIN metrics
    /\ pair.sell_exchange \in DOMAIN metrics
    /\ MetricSetPasses(metrics[pair.buy_exchange])
    /\ MetricSetPasses(metrics[pair.sell_exchange])

\* C5: process_coin emits a (buy_exchange, sell_exchange) pair only if the buy
\* exchange is in the candidate's bid set, the sell exchange in its ask set,
\* both have a MetricSet, and every metric of the threshold table is present
\* and within its band for both; a pair with a missing metric is never emitted.
C5_VolatilityGate ==
    /\ \A j \in 1..Len(valid_combinations) : PairPasses(valid_combinations[j])
    /\ coin_result # None =>
           \A j \in 1..Len(coin_result.items) : PairPasses(coin_result.items[j])

\* One pair returned, its buy exchange at the upper end of the volatility band,
\* while the candidate's other sell exchange has no MetricSet
C5_Witness ==
    /\ coin_pc = "done"
    /\ coin_result # None
    /\ Len(coin_result.items) = 1
    /\ Len(candidate.ask_exchanges_in_range) = 2
    /\ metrics[coin_result.items[1].buy_exchange]["volatility"]
           = METRIC_THRESHOLDS["volatility"][2]
    /\ \E e \in Elems(candidate.ask_exchanges_in_range) : e \notin DOMAIN metrics

(***************************************************************************)
(* collect_orderbooks.analyze_orderbook_depth: volume per price level, a   *)
(* dict keyed by price in the order of first appearance                    *)
(***************************************************************************)
RECURSIVE PriceKeys(_, _)
PriceKeys(levs, seen) ==
    IF levs = <<>> THEN <<>>
    ELSE IF levs[1][1] \in seen THEN PriceKeys(Tail(levs), seen)
    ELSE <<levs[1][1]>> \o PriceKeys(Tail(levs), seen \cup {levs[1][1]})

RECURSIVE QtyAt(_, _)
QtyAt(levs, price) ==
    IF levs = <<>> THEN 0
    ELSE (IF levs[1][1] = price THEN levs[1][2] ELSE 0) + QtyAt(Tail(levs), price)

Volumes(levs) ==
    LET keys == PriceKeys(levs, {})
    IN  [i \in 1..Len(keys) |-> <<keys[i], QtyAt(levs, keys[i])>>]

analyze_orderbook_depth(bids, asks) ==
    [bid_volumes |-> Volumes(bids), ask_volumes |-> Volumes(asks)]

(***************************************************************************)
(* ArbitrageAnalyzer.get_orderbook_data: asks for a buy, bids for a sell,  *)
(* each price and volume through Decimal(str(.))                           *)
(***************************************************************************)
get_orderbook_data(ob, buy) ==
    LET data == IF buy THEN ob.ask_volumes ELSE ob.bid_volumes
    IN  [i \in 1..Len(data) |-> <<DecOfInt(data[i][1]), DecOfInt(data[i][2])>>]

(***************************************************************************)
(* ArbitrageAnalyzer.calculate_split_orders                                *)
(***************************************************************************)
\* The loop's exit test (and, negated, the test after the loop)
Reached(cost, volume, target, buy) ==
    IF buy THEN DecLeq(target, cost) ELSE DecLeq(target, volume)

\* What one level offers towards the target
available_volume(level, cost, volume, target, buy) ==
    IF buy THEN DecMin(level[2], DecDiv(DecSub(target, cost), level[1]))
    ELSE DecMin(level[2], DecSub(target, volume))

\* The fill of av at a level, added to acc when av > 0
split_fill(acc, level, av) ==
    IF DecLess(DecZero, av)
    THEN [orders       |-> Append(acc.orders,
                             [price |-> PyFloat(level[1]), volume |-> PyFloat(av)]),
          total_volume |-> DecAdd(acc.total_volume, av),
          total_cost   |-> DecAdd(acc.total_cost, DecMul(av, level[1]))]
    ELSE acc

\* One iteration of the loop body on accumulators acc = [orders, total_volume, total_cost]
split_iteration(acc, level, target, buy) ==
    split_fill(acc, level,
               available_volume(level, acc.total_cost, acc.total_volume, target, buy))

split_start == [orders |-> <<>>, total_volume |-> DecZero, total_cost |-> DecZero]

RECURSIVE split_loop(_, _, _, _, _)
\* The break test after iteration i left the accumulators a
split_break(ob, i, a, target, buy) ==
    IF Reached(a.total_cost, a.total_volume, target, buy) THEN a
    ELSE split_loop(ob, i + 1, a, target, buy)

split_loop(ob, i, acc, target, buy) ==
    IF i > Len(ob) THEN acc
    ELSE split_break(ob, i, split_iteration(acc, ob[i], target, buy), target, buy)

split_return(acc, target, buy) ==
    IF ~Reached(acc.total_cost, acc.total_volume, target, buy) THEN None
    ELSE [tag |-> "plan", orders |-> acc.orders,
          total_volume |-> acc.total_volume, total_cost |-> acc.total_cost]

calculate_split_orders(ob, target, buy) ==
    split_return(split_loop(ob, 1, split_start, target, buy), target, buy)

(***************************************************************************)
(* The simulator run step by step                                          *)
(***************************************************************************)
MaxLevels == 2

FillPrices == {3, 7, 100, 101}

FillVolumes == {1, 2, 1000}

BuyTargets == {DecOfInt(9), DecOfInt(100), DecOfInt(150)}

\* Quantities a buy leg hands to the sell leg
SellTargets == {DecOfInt(1), DecOfInt(3),
                DecAdd(DecOfInt(1), DecDiv(DecOfInt(50), DecOfInt(101))),
                DecDiv(DecOfInt(100), DecOfInt(3))}

\* Exchange books are sorted best first: asks ascending, bids descending
SortedLevels(asc) ==
    {s \in UNION {[1..n -> FillPrices \X FillVolumes] : n \in 0..MaxLevels} :
        \A i \in 1..(Len(s) - 1) :
            IF asc THEN s[i][1] <= s[i + 1][1] ELSE s[i][1] >= s[i + 1][1]}

FillInit ==
    /\ DriverIdle
    /\ is_buy \in BOOLEAN
    /\ snapshot \in IF is_buy
                    THEN {[bids |-> <<>>, asks |-> a] : a \in SortedLevels(TRUE)}
                    ELSE {[bids |-> b, asks |-> <<>>] : b \in SortedLevels(FALSE)}
    /\ target_volume \in IF is_buy THEN BuyTargets ELSE SellTargets
    /\ orderbook = get_orderbook_data(
                       analyze_orderbook_depth(snapshot.bids, snapshot.asks), is_buy)
    /\ k = 1
    /\ orders = <<>>
    /\ total_volume = DecZero
    /\ total_cost = DecZero
    /\ split_pc = "loop"
    /\ plan = None
    /\ ScreenIdle
    /\ CoinIdle
    /\ OppIdle
    /\ RiskIdle
    /\ CycleIdle

\* for price, volume in orderbook: ... break
SplitStep ==
    /\ split_pc = "loop"
    /\ k <= Len(orderbook)
    /\ \E a \in {split_iteration(
                    [orders |-> orders, total_volume |-> total_volume,
                     total_cost |-> total_cost],
                    orderbook[k], target_volume, is_buy)} :
           /\ orders' = a.orders
           /\ total_volume' = a.total_volume
           /\ total_cost' = a.total_cost
           /\ k' = k + 1
           /\ split_pc' = IF \/ Reached(a.total_cost, a.total_volume, target_volume, is_buy)
                             \/ k + 1 > Len(orderbook)
                          THEN "return" ELSE "loop"
    /\ UNCHANGED <<snapshot, is_buy, target_volume, orderbook, plan, screenVars, coinVars, oppVars, riskVars,
               cycleVars, driverVars>>

\* An empty side: the loop body never runs
SplitEmpty ==
    /\ split_pc = "loop"
    /\ Len(orderbook) = 0
    /\ split_pc' = "return"
    /\ UNCHANGED <<snapshot, is_buy, target_volume, orderbook, k, orders,
                   total_volume, total_cost, plan, screenVars, coinVars, oppVars, riskVars,
                   cycleVars, driverVars>>

\* The test after the loop and the return
SplitReturn ==
    /\ split_pc = "return"
    /\ plan' = split_return(
                   [orders |-> orders, total_volume |-> total_volume,
                    total_cost |-> total_cost], target_volume, is_buy)
    /\ split_pc' = "done"
    /\ UNCHANGED <<snapshot, is_buy, target_volume, orderbook, k, orders,
                   total_volume, total_cost, screenVars, coinVars, oppVars, riskVars,
                   cycleVars, driverVars>>

FillNext == SplitStep \/ SplitEmpty \/ SplitReturn

SpecFill == FillInit /\ [][FillNext]_vars

\* The side of the book the walk reads, as the exchange sent it
WalkedLevels == IF is_buy THEN snapshot.asks ELSE snapshot.bids

\* The book's cumulative depth, exactly: sum of price * quantity for a buy,
\* sum of quantity for a sell
RECURSIVE Depth(_, _)
Depth(levs, buy) ==
    IF levs = <<>> THEN 0
    ELSE (IF buy THEN levs[1][1] * levs[1][2] ELSE levs[1][2]) + Depth(Tail(levs), buy)

\* C6 (as stated): whenever calculate_split_orders returns a plan, the
\* accumulated amount equals the target and never exceeds it (total_cost for a
\* buy, total_volume for a sell), and the quantity taken from each level is at
\* most that level's quantity.
C6_FillMeetsTargetExactly ==
    (split_pc = "done" /\ plan # None) =>
        /\ IF is_buy THEN DecEq(plan.total_cost, target_volume)
           ELSE DecEq(plan.total_volume, target_volume)
        /\ \A j \in 1..Len(plan.orders) :
               \E i \in 1..Len(orderbook) :
                   /\ plan.orders[j].price = PyFloat(orderbook[i][1])
                   /\ DecLeq(plan.orders[j].volume, orderbook[i][2])

\* C7 (as stated): calculate_split_orders returns no plan if and only if the
\* book's cumulative depth is smaller than the target; with sufficient depth a
\* plan is always returned.
C7_NoPlanIffDepthInsufficient ==
    split_pc = "done" =>
        (plan = None <=> DecLess(DecOfInt(Depth(WalkedLevels, is_buy)), target_volume))

\* C8 (as stated): best price first, no level receives a fill while a strictly
\* better-priced level (lower for a buy, higher for a sell) still has
\* unconsumed quantity.
C8_BestPriceFirst ==
    \A j \in 1..Len(orders) : \A i \in 1..Len(orderbook) :
        (IF is_buy THEN DecLess(PyFloat(orderbook[i][1]), orders[j].price)
         ELSE DecLess(orders[j].price, PyFloat(orderbook[i][1])))
        => \E m \in 1..Len(orders) :
               /\ orders[m].price = PyFloat(orderbook[i][1])
               /\ orders[m].volume = PyFloat(orderbook[i][2])

(***************************************************************************)
(* risk_manager.AdvancedRiskManager.  rm is the manager's state: its       *)
(* limits, daily_pnl, current_drawdown and performance_metrics.            *)
(***************************************************************************)
Dec1 == DecOfInt(1)

\* AdvancedRiskManager.__init__
risk_manager_init(max_position_size, max_loss_percentage, max_daily_loss, max_drawdown) ==
    [max_position_size   |-> max_position_size,
     max_loss_percentage |-> max_loss_percentage,
     max_daily_loss      |-> max_daily_loss,
     max_drawdown        |-> max_drawdown,
     daily_pnl           |-> DecZero,
     peak_value          |-> DecZero,
     current_drawdown    |-> DecZero,
     trades_history      |-> <<>>,
     performance_metrics |-> [win_rate               |-> DecZero,
                              profit_factor          |-> Dec1,
                              sharpe_ratio           |-> DecZero,
                              max_consecutive_losses |-> 0]]

DecAbs(x) == [x EXCEPT !.neg = FALSE]

\* A pause that only looks at the drawdown
should_pause_on_drawdown(rm) == DecLess(rm.max_drawdown, rm.current_drawdown)

should_pause_trading(rm) ==
    \/ DecLess(rm.daily_pnl, DecNeg(rm.max_daily_loss))
    \/ DecLess(rm.max_drawdown, rm.current_drawdown)

\* validate_trade with the position-size limit left out
validate_trade_any_size(rm, entry_price, position_size, stop_loss, account_balance) ==
    LET potential_loss   == DecMul(DecSub(entry_price, stop_loss), position_size)
        max_allowed_loss == DecMul(account_balance, rm.max_loss_percentage)
    IN  /\ ~DecLess(max_allowed_loss, potential_loss)
        /\ ~DecLess(DecMul(account_balance, rm.max_daily_loss),
                    DecAdd(DecAbs(rm.daily_pnl), potential_loss))
        /\ ~should_pause_trading(rm)

validate_trade(rm, entry_price, position_size, stop_loss, account_balance) ==
    IF DecLess(rm.max_position_size, position_size) THEN FALSE
    ELSE LET potential_loss   == DecMul(DecSub(entry_price, stop_loss), position_size)
             max_allowed_loss == DecMul(account_balance, rm.max_loss_percentage)
         IN  IF DecLess(max_allowed_loss, potential_loss) THEN FALSE
             ELSE IF DecLess(DecMul(account_balance, rm.max_daily_loss),
                             DecAdd(DecAbs(rm.daily_pnl), potential_loss)) THEN FALSE
             ELSE IF should_pause_trading(rm) THEN FALSE
             ELSE TRUE

\* The looser of the two stops: min instead of max
loosest_stop_loss(rm, entry_price, historical_volatility) ==
    DecMin(DecMul(entry_price, DecSub(Dec1, DecMul(historical_volatility, DecOfInt(2)))),
           DecMul(entry_price, DecSub(Dec1, rm.max_loss_percentage)))

\* max(volatility_based_stop, max_loss_based_stop); the volatility arrives as
\* a Decimal, so historical_volatility * 2 is a Decimal product
calculate_optimal_stop_loss(rm, entry_price, historical_volatility) ==
    LET volatility_based_stop ==
            DecMul(entry_price, DecSub(Dec1, DecMul(historical_volatility, DecOfInt(2))))
        max_loss_based_stop == DecMul(entry_price, DecSub(Dec1, rm.max_loss_percentage))
    IN  DecMax(volatility_based_stop, max_loss_based_stop)

\* The weighted sum without the division by the sum of the weights
performance_factor_unweighted(rm) ==
    DecMax(DecMin(DecAdd(DecAdd(DecAdd(rm.performance_metrics.win_rate,
                                       DecMul(DecOf(3, -1),
                                              DecDiv(DecMin(rm.performance_metrics.profit_factor,
                                                            DecOfInt(2)), DecOfInt(2)))),
                                DecMul(DecOf(3, -1),
                                       DecDiv(DecMin(rm.performance_metrics.sharpe_ratio,
                                                     DecOfInt(3)), DecOfInt(3)))),
                         DecMul(DecOf(2, -1),
                                DecSub(Dec1,
                                       DecDiv(DecOfInt(rm.performance_metrics.max_consecutive_losses),
                                              DecOfInt(10))))),
                  DecOf(15, -1)), DecOf(5, -1))

calculate_performance_factor(rm) ==
    LET win_rate_factor           == rm.performance_metrics.win_rate
        profit_factor_weight      == DecOf(3, -1)
        sharpe_ratio_weight       == DecOf(3, -1)
        consecutive_losses_weight == DecOf(2, -1)
        profit_factor_component ==
            DecDiv(DecMin(rm.performance_metrics.profit_factor, DecOfInt(2)), DecOfInt(2))
        sharpe_ratio_component ==
            DecDiv(DecMin(rm.performance_metrics.sharpe_ratio, DecOfInt(3)), DecOfInt(3))
        consecutive_losses_component ==
            DecSub(Dec1, DecDiv(DecOfInt(rm.performance_metrics.max_consecutive_losses),
                                DecOfInt(10)))
        performance_factor ==
            DecDiv(DecAdd(DecAdd(DecAdd(win_rate_factor,
                                        DecMul(profit_factor_weight,
                                               profit_factor_component)),
                                 DecMul(sharpe_ratio_weight, sharpe_ratio_component)),
                          DecMul(consecutive_losses_weight, consecutive_losses_component)),
                   DecAdd(DecAdd(DecAdd(Dec1, profit_factor_weight), sharpe_ratio_weight),
                          consecutive_losses_weight))
    IN  DecMax(DecMin(performance_factor, DecOf(15, -1)), DecOf(5, -1))

\* The adjusted size without the cap at max_position_size
adjust_position_size_unclamped(rm, base_position_size) ==
    DecMul(base_position_size, calculate_performance_factor(rm))

adjust_position_size_based_on_performance(rm, base_position_size) ==
    DecMin(DecMul(base_position_size, calculate_performance_factor(rm)),
           rm.max_position_size)

(***************************************************************************)
(* spread_process_third.ArbitrageAnalyzer                                  *)
(***************************************************************************)
maker_fee == DecOf(1, -3)

taker_fee == DecOf(2, -3)

account_balance == DecOfInt(10000)

\* The buy leg charged at the maker rate
cost_with_maker_fee(cost) == DecMul(cost, DecAdd(Dec1, maker_fee))

\* cost * (Decimal('1') + self.taker_fee)
cost_with_fee(cost) == DecMul(cost, DecAdd(Dec1, taker_fee))

\* revenue * (Decimal('1') - self.maker_fee)
revenue_with_fee(revenue) == DecMul(revenue, DecSub(Dec1, maker_fee))

\* sum(volume for price, volume in levels if <price within the depth band>)
RECURSIVE DepthSum(_, _, _)
DepthSum(levels, limit, buy) ==
    IF levels = <<>> THEN DecZero
    ELSE LET rest == DepthSum(Front(levels), limit, buy)
             last == levels[Len(levels)]
         IN  IF (IF buy THEN DecLeq(last[1], limit) ELSE DecLeq(limit, last[1]))
             THEN DecAdd(rest, last[2]) ELSE rest

\* The volume offered within the band that ends at limit
DepthWithin(levels, limit, buy) == DepthSum(levels, limit, buy)

RECURSIVE BestPrice(_, _)
BestPrice(levels, buy) ==
    IF Len(levels) = 1 THEN levels[1][1]
    ELSE LET rest == BestPrice(Tail(levels), buy)
         IN  IF buy THEN (IF DecLess(rest, levels[1][1]) THEN rest ELSE levels[1][1])
             ELSE (IF DecLess(levels[1][1], rest) THEN rest ELSE levels[1][1])

\* calculate_market_depth with the default depth_percentage
calculate_market_depth(buy_orderbook, sell_orderbook) ==
    LET depth_percentage == DecOf(1, -2)
        buy_orders  == get_orderbook_data(buy_orderbook, TRUE)
        sell_orders == get_orderbook_data(sell_orderbook, FALSE)
        best_ask    == BestPrice(buy_orders, TRUE)
        best_bid    == BestPrice(sell_orders, FALSE)
        buy_depth   == DepthWithin(buy_orders,
                                DecMul(best_ask, DecAdd(Dec1, depth_percentage)), TRUE)
        sell_depth  == DepthWithin(sell_orders,
                                DecMul(best_bid, DecSub(Dec1, depth_percentage)), FALSE)
    IN  IF buy_orders = <<>> \/ sell_orders = <<>> THEN DecZero
        ELSE DecMin(buy_depth, sell_depth)

\* The dict analyze_single_opportunity returns (the timestamp is left out)
opportunity_fields(result, buy_price, sell_price, coins_bought, cost_fee, revenue_fee, profit, market_depth) ==
    [symbol            |-> result.symbol,
     buy_exchange      |-> result.buy_exchange,
     sell_exchange     |-> result.sell_exchange,
     buy_price         |-> PyFloat(buy_price),
     sell_price        |-> PyFloat(sell_price),
     volume            |-> PyFloat(coins_bought),
     cost              |-> PyFloat(cost_fee),
     revenue           |-> PyFloat(revenue_fee),
     profit            |-> PyFloat(profit),
     profit_percentage |-> PyFloat(DecMul(DecDiv(profit, cost_fee), DecOfInt(100))),
     market_depth      |-> PyFloat(market_depth),
     volatility        |-> PyFloat(DecDiv(PyFloat(DecAdd(result.buy_exchange_volatility,
                                                         result.sell_exchange_volatility)),
                                          DecOfInt(2)))]

\* profit = revenue_with_fee - cost_with_fee
opportunity_after_fees(result, buy_result, sell_result, cost_fee, revenue_fee, market_depth) ==
    opportunity_fields(result,
                       DecDiv(buy_result.total_cost, buy_result.total_volume),
                       DecDiv(sell_result.total_cost, sell_result.total_volume),
                       buy_result.total_volume, cost_fee, revenue_fee,
                       DecSub(revenue_fee, cost_fee), market_depth)

\* analyze_single_opportunity once both legs have a plan
opportunity_dict(result, buy_result, sell_result, market_depth) ==
    opportunity_after_fees(result, buy_result, sell_result,
                           cost_with_fee(buy_result.total_cost),
                           revenue_with_fee(sell_result.total_cost), market_depth)

\* Decimal(str(x)) of a float: the digits of its repr read back exactly
DecimalOfStr(x) == DecNorm(x.neg, x.dig, x.exp)

Infinity == [tag |-> "inf"]

risk_reward(risk, reward) ==
    IF DecIsZero(risk) THEN Infinity ELSE PyFloat(DecDiv(reward, risk))

\* ArbitrageAnalyzer.calculate_risk_reward_ratio (entry_price > 0)
calculate_risk_reward_ratio(opp) ==
    risk_reward(DecDiv(DecSub(DecimalOfStr(opp.buy_price), DecimalOfStr(opp.stop_loss)),
                       DecimalOfStr(opp.buy_price)),
                DecDiv(DecSub(DecimalOfStr(opp.sell_price), DecimalOfStr(opp.buy_price)),
                       DecimalOfStr(opp.buy_price)))

\* ArbitrageAnalyzer.__init__
analyzer_init(min_profit_percentage, max_trade_volume, target) ==
    [min_profit_percentage |-> min_profit_percentage,
     max_trade_volume      |-> max_trade_volume,
     target_volume         |-> target]

\* The risk manager the analyzer constructs for itself
analyzer_risk_manager(an) ==
    risk_manager_init(an.max_trade_volume, DecOf(2, -2), DecOf(5, -2), DecOf(1, -1))

\* analyze_single_opportunity after the sell leg
analysis_sold(result, buy_orderbook, sell_orderbook, buy_result, sell_result) ==
    IF sell_result = None
    THEN [buy_result |-> buy_result, sell_result |-> None, opportunity |-> None]
    ELSE [buy_result  |-> buy_result,
          sell_result |-> sell_result,
          opportunity |-> opportunity_dict(result, buy_result, sell_result,
                             calculate_market_depth(buy_orderbook, sell_orderbook))]

\* analyze_single_opportunity after the buy leg
analysis_bought(result, buy_orderbook, sell_orderbook, sell_orders, buy_result) ==
    IF buy_result = None
    THEN [buy_result |-> None, sell_result |-> None, opportunity |-> None]
    ELSE analysis_sold(result, buy_orderbook, sell_orderbook, buy_result,
                       calculate_split_orders(sell_orders, buy_result.total_volume, FALSE))

\* analyze_single_opportunity after get_orderbook_data
analysis_orders(an, result, buy_orderbook, sell_orderbook, buy_orders, sell_orders) ==
    IF buy_orders = <<>> \/ sell_orders = <<>>
    THEN [buy_result |-> None, sell_result |-> None, opportunity |-> None]
    ELSE analysis_bought(result, buy_orderbook, sell_orderbook, sell_orders,
                         calculate_split_orders(buy_orders, an.target_volume, TRUE))

\* analyze_single_opportunity: its locals, and the dict or None it returns
analyze_single_opportunity(an, result, buy_orderbook, sell_orderbook) ==
    analysis_orders(an, result, buy_orderbook, sell_orderbook,
                    get_orderbook_data(buy_orderbook, TRUE),
                    get_orderbook_data(sell_orderbook, FALSE))

\* A coroutine that has not passed its await yet
PendingTask ==
    [pc |-> "fetch", fetch |-> "pending", orderbooks |-> None,
     buy_result |-> None, sell_result |-> None, opportunity |-> None,
     entry_price |-> None, position_size |-> None, stop_loss |-> None,
     validate_trade |-> "not called", returned |-> None]

\* A coroutine whose wait_for raised: process_opportunity returns None
FailedTask(how) == [PendingTask EXCEPT !.pc = "done", !.fetch = how]

\* opportunity['stop_loss'] = float(stop_loss)
with_stop_loss(opp, stop_loss) ==
    [f \in DOMAIN opp \cup {"stop_loss"} |->
        IF f = "stop_loss" THEN PyFloat(stop_loss) ELSE opp[f]]

\* opportunity['risk_reward_ratio'] = self.calculate_risk_reward_ratio(opportunity)
with_risk_reward_ratio(opp) ==
    [f \in DOMAIN opp \cup {"risk_reward_ratio"} |->
        IF f = "risk_reward_ratio" THEN calculate_risk_reward_ratio(opp) ELSE opp[f]]

\* The three fields written when validate_trade accepted
accepted_opportunity(rm, opportunity, position_size, stop_loss) ==
    with_risk_reward_ratio(with_stop_loss(
        [opportunity EXCEPT !.volume =
            PyFloat(adjust_position_size_based_on_performance(rm, position_size))],
        stop_loss))

\* process_opportunity after validate_trade returned valid
task_validated(rm, task, opportunity, entry_price, position_size, stop_loss, valid) ==
    [task EXCEPT !.entry_price = entry_price,
                 !.position_size = position_size,
                 !.stop_loss = stop_loss,
                 !.validate_trade = IF valid THEN "True" ELSE "False",
                 !.returned = IF valid
                              THEN accepted_opportunity(rm, opportunity, position_size,
                                                        stop_loss)
                              ELSE None]

\* process_opportunity after calculate_optimal_stop_loss
task_stopped(rm, task, opportunity, entry_price, position_size, stop_loss) ==
    task_validated(rm, task, opportunity, entry_price, position_size, stop_loss,
                   validate_trade(rm, entry_price, position_size, stop_loss,
                                  account_balance))

\* process_opportunity once the profit filter has passed
task_profitable(rm, task, opportunity, entry_price) ==
    task_stopped(rm, task, opportunity, entry_price, DecimalOfStr(opportunity.volume),
                 calculate_optimal_stop_loss(rm, entry_price,
                                             DecimalOfStr(opportunity.volatility)))

\* process_opportunity after the wrapper returned opportunity
task_analysed(an, rm, task, opportunity) ==
    IF opportunity = None THEN task
    ELSE IF ~DecLess(an.min_profit_percentage, opportunity.profit_percentage) THEN task
    ELSE task_profitable(rm, task, opportunity, DecimalOfStr(opportunity.buy_price))

\* The wrapper's locals stored in the task
task_analysis(an, rm, task, a) ==
    task_analysed(an, rm,
                  [task EXCEPT !.buy_result = a.buy_result,
                               !.sell_result = a.sell_result,
                               !.opportunity = a.opportunity],
                  a.opportunity)

\* analyze_single_opportunity_wrapper once collect_orderbooks_func returned:
\* None when an exchange of the candidate is missing from the order books
analyze_single_opportunity_wrapper(an, result, orderbooks) ==
    IF \/ result.buy_exchange \notin DOMAIN orderbooks
       \/ result.sell_exchange \notin DOMAIN orderbooks
    THEN [buy_result |-> None, sell_result |-> None, opportunity |-> None]
    ELSE analyze_single_opportunity(an, result, orderbooks[result.buy_exchange],
                                    orderbooks[result.sell_exchange])

\* process_opportunity from the wrapper's return a to its own return: the
\* profit filter, the stop-loss, validate_trade and the fields written on
\* acceptance
process_opportunity(an, rm, orderbooks, a) ==
    task_analysis(an, rm,
                  [PendingTask EXCEPT !.pc = "done", !.fetch = "returned",
                                      !.orderbooks = orderbooks],
                  a)

\* key=lambda x: x['profit_percentage'] * x['risk_reward_ratio']
sort_key(opp) ==
    IF opp.risk_reward_ratio = Infinity
    THEN (IF DecIsZero(opp.profit_percentage) THEN [tag |-> "nan"]
          ELSE IF opp.profit_percentage.neg THEN [tag |-> "-inf"] ELSE Infinity)
    ELSE PyFloat(DecMul(opp.profit_percentage, opp.risk_reward_ratio))

\* key1 < key2 on floats; every comparison with a nan is false
KeyLess(key1, key2) ==
    IF key1 = [tag |-> "nan"] \/ key2 = [tag |-> "nan"] THEN FALSE
    ELSE IF key1 = Infinity \/ key2 = [tag |-> "-inf"] THEN FALSE
    ELSE IF key2 = Infinity \/ key1 = [tag |-> "-inf"] THEN TRUE
    ELSE DecLess(key1, key2)

\* The survivors left in the order of their tasks
gather_order(list) == list

\* list.sort(key=..., reverse=True): descending, equal keys keep their order
RECURSIVE sort_reverse(_)
sort_reverse(list) ==
    IF list = <<>> THEN <<>>
    ELSE LET sorted == sort_reverse(Front(list))
             x      == list[Len(list)]
             before == {i \in 1..Len(sorted) :
                           ~KeyLess(sort_key(sorted[i]), sort_key(x))}
             n      == Cardinality(before)
         IN  SubSeq(sorted, 1, n) \o <<x>> \o SubSeq(sorted, n + 1, Len(sorted))

\* [opp for opp in await asyncio.gather(*tasks) if opp]
RECURSIVE gathered(_)
gathered(ts) ==
    IF ts = <<>> THEN <<>>
    ELSE gathered(Front(ts)) \o
         (IF ts[Len(ts)].returned = None THEN <<>> ELSE <<ts[Len(ts)].returned>>)

(***************************************************************************)
(* One cycle of analyze_arbitrage_opportunities.  The coroutines run       *)
(* concurrently under asyncio.gather: each suspends once, at the fetch of  *)
(* its order books, and runs to its return without interruption after it.  *)
(***************************************************************************)
max_results == 100

NumCandidates == 2

\* (min_profit_percentage, max_trade_volume, target_volume): config.py, and a
\* deployment trading 15000 per leg with positions capped at 150 coins
Configs == {analyzer_init(DecOf(5, -1), DecOfInt(1000), DecOfInt(150)),
            analyzer_init(DecOf(5, -1), DecOfInt(150), DecOfInt(15000))}

\* The (buy_exchange, sell_exchange) of the candidates, in turn
Routes == <<<<"A", "B">>, <<"B", "A">>, <<"A", "C">>, <<"C", "A">>, <<"B", "C">>,
            <<"C", "B">>>>

\* Candidates as second_spread emits them, calm and volatile in turn; the
\* first six differ in buy and sell exchange
Candidate(i) ==
    [symbol        |-> IF i % 2 = 1 THEN "S1" ELSE "S2",
     buy_exchange  |-> Routes[((i - 1) % 6) + 1][1],
     sell_exchange |-> Routes[((i - 1) % 6) + 1][2],
     buy_exchange_volatility  |-> IF i % 2 = 1 THEN DecOf(5, -3) ELSE DecOf(5, -1),
     sell_exchange_volatility |-> IF i % 2 = 1 THEN DecOf(5, -3) ELSE DecOf(5, -1)]

\* The asks of the buy exchange and the bids of the sell exchange, best first
AskBooks == {<<>>, <<<<100, 1000>>>>, <<<<99, 1000>>>>, <<<<100, 1>>>>}

BidBooks == {<<<<110, 1000>>>>, <<<<100, 1000>>>>, <<<<110, 1>>, <<105, 1000>>>>}

\* What collect_orderbooks can return for a candidate: a depth summary per
\* exchange that answered
OrderbookResults(result) ==
    {(result.buy_exchange :> analyze_orderbook_depth(<<>>, asks)) @@
     (result.sell_exchange :> analyze_orderbook_depth(bids, <<>>)) :
        asks \in AskBooks, bids \in BidBooks}
    \cup {(result.buy_exchange :> analyze_orderbook_depth(<<>>, asks)) :
            asks \in {<<<<100, 1000>>>>}}

OppInit ==
    /\ DriverIdle
    /\ analyzer \in Configs
    /\ risk_manager = analyzer_risk_manager(analyzer)
    /\ main_second_results = [i \in 1..NumCandidates |-> Candidate(i)]
    /\ tasks = [i \in 1..(IF NumCandidates < max_results THEN NumCandidates
                          ELSE max_results) |-> PendingTask]
    /\ opportunities = None
    /\ opp_pc = "gather"
    /\ ScreenIdle
    /\ CoinIdle
    /\ FillIdle
    /\ RiskIdle
    /\ CycleIdle

\* collect_orderbooks_func returns within the timeout: the coroutine runs on
\* to its return
FetchReturns(i) ==
    /\ opp_pc = "gather"
    /\ tasks[i].pc = "fetch"
    /\ \E orderbooks \in OrderbookResults(main_second_results[i]) :
          \E a \in {analyze_single_opportunity_wrapper(analyzer, main_second_results[i],
                                                       orderbooks)} :
             tasks' = [tasks EXCEPT ![i] = process_opportunity(analyzer, risk_manager,
                                                               orderbooks, a)]
    /\ UNCHANGED <<analyzer, risk_manager, main_second_results, opportunities, opp_pc,
                   screenVars, coinVars, fillVars, riskVars, cycleVars, driverVars>>

\* An exception that leaves the gather: the results of the other coroutines
\* are lost with it
failure_propagates(ts, i, how) ==
    [j \in DOMAIN ts |-> IF j = i THEN FailedTask(how) ELSE [ts[j] EXCEPT !.returned = None]]

\* The except clauses of process_opportunity and of the wrapper: coroutine i
\* returns None, the others are not touched
task_failed(ts, i, how) == [ts EXCEPT ![i] = FailedTask(how)]

\* asyncio.TimeoutError from a wait_for
FetchTimesOut(i) ==
    /\ opp_pc = "gather"
    /\ tasks[i].pc = "fetch"
    /\ tasks' = task_failed(tasks, i, "timeout")
    /\ UNCHANGED <<analyzer, risk_manager, main_second_results, opportunities, opp_pc,
                   screenVars, coinVars, fillVars, riskVars, cycleVars, driverVars>>

\* collect_orderbooks_func raises
FetchRaises(i) ==
    /\ opp_pc = "gather"
    /\ tasks[i].pc = "fetch"
    /\ tasks' = task_failed(tasks, i, "error")
    /\ UNCHANGED <<analyzer, risk_manager, main_second_results, opportunities, opp_pc,
                   screenVars, coinVars, fillVars, riskVars, cycleVars, driverVars>>

\* gather completes; the survivors are sorted and returned
SortAndReturn ==
    /\ opp_pc = "gather"
    /\ \A i \in 1..Len(tasks) : tasks[i].pc = "done"
    /\ opportunities' = [tag |-> "list", items |-> sort_reverse(gathered(tasks))]
    /\ opp_pc' = "done"
    /\ UNCHANGED <<analyzer, risk_manager, main_second_results, tasks,
                   screenVars, coinVars, fillVars, riskVars, cycleVars, driverVars>>

\* Any coroutine still at its await may be the next to resume
TaskReturns == \E i \in 1..Len(tasks) : FetchReturns(i)

TaskTimesOut == \E i \in 1..Len(tasks) : FetchTimesOut(i)

TaskRaises == \E i \in 1..Len(tasks) : FetchRaises(i)

OppNext == TaskReturns \/ TaskTimesOut \/ TaskRaises \/ SortAndReturn

SpecOpp == OppInit /\ [][OppNext]_vars

(***************************************************************************)
(* Properties of the order-book stage                                      *)
(***************************************************************************)
\* The coroutines whose analyze_single_opportunity returned a dict
Analysed == {i \in 1..Len(tasks) : tasks[i].opportunity # None}

\* The fee-inclusive cost and revenue of task i, from the raw totals of its
\* two plans: taker fee 0.002 on the buy leg, maker fee 0.001 on the sell leg
FeeCost(i) == DecMul(tasks[i].buy_result.total_cost, DecOf(1002, -3))

FeeRevenue(i) == DecMul(tasks[i].sell_result.total_cost, DecOf(999, -3))

\* C9: every opportunity computed by analyze_single_opportunity reports
\* cost = raw buy cost * (1 + 0.002), revenue = raw sell proceeds * (1 - 0.001),
\* profit = revenue - cost and profit_percentage = profit / cost * 100 with
\* the fee-inclusive cost as denominator (each as the float of the Decimal)
C9_FeeModel ==
    \A i \in Analysed :
        /\ tasks[i].opportunity.cost = PyFloat(FeeCost(i))
        /\ tasks[i].opportunity.revenue = PyFloat(FeeRevenue(i))
        /\ tasks[i].opportunity.profit = PyFloat(DecSub(FeeRevenue(i), FeeCost(i)))
        /\ tasks[i].opportunity.profit_percentage =
               PyFloat(DecMul(DecDiv(DecSub(FeeRevenue(i), FeeCost(i)), FeeCost(i)),
                              DecOfInt(100)))

\* 150 spent on 1.5 coins sold for 165: cost 150.3, revenue 164.835, profit 14.535
C9_Witness ==
    \E i \in Analysed :
        /\ tasks[i].buy_result.total_cost = DecOfInt(150)
        /\ tasks[i].sell_result.total_cost = DecOfInt(165)
        /\ tasks[i].opportunity.cost = DecOf(1503, -1)
        /\ tasks[i].opportunity.revenue = DecOf(164835, -3)
        /\ tasks[i].opportunity.profit = DecOf(14535, -3)
        /\ DecLess(DecOf(967, -2), tasks[i].opportunity.profit_percentage)
        /\ DecLess(tasks[i].opportunity.profit_percentage, DecOf(968, -2))

\* The four rules a trade must pass, on the manager's limits
Acceptable(rm, entry_price, position_size, stop_loss) ==
    /\ DecLeq(position_size, rm.max_position_size)
    /\ DecLeq(DecMul(DecSub(entry_price, stop_loss), position_size),
              DecMul(account_balance, rm.max_loss_percentage))
    /\ DecLeq(DecAdd(DecAbs(rm.daily_pnl),
                     DecMul(DecSub(entry_price, stop_loss), position_size)),
              DecMul(account_balance, rm.max_daily_loss))
    /\ ~DecLess(rm.daily_pnl, DecNeg(rm.max_daily_loss))
    /\ ~DecLess(rm.max_drawdown, rm.current_drawdown)

\* Candidate i passes the profit filter
Profitable(i) ==
    DecLess(analyzer.min_profit_percentage, tasks[i].opportunity.profit_percentage)

\* Candidate i passes the risk rules at the entry price, size and volatility
\* of its opportunity, with the stop-loss the manager derives from them
RiskAccepts(i) ==
    Acceptable(risk_manager,
               DecimalOfStr(tasks[i].opportunity.buy_price),
               DecimalOfStr(tasks[i].opportunity.volume),
               calculate_optimal_stop_loss(risk_manager,
                   DecimalOfStr(tasks[i].opportunity.buy_price),
                   DecimalOfStr(tasks[i].opportunity.volatility)))

\* The returned opportunities that belong to candidate i
Returned(i) ==
    {j \in 1..Len(opportunities.items) :
        /\ opportunities.items[j].symbol = main_second_results[i].symbol
        /\ opportunities.items[j].buy_exchange = main_second_results[i].buy_exchange
        /\ opportunities.items[j].sell_exchange = main_second_results[i].sell_exchange}

\* C10: every opportunity in the returned list has a fee-adjusted
\* profit_percentage strictly above min_profit_percentage and was accepted by
\* validate_trade with the stop-loss attached to it; a candidate failing
\* either condition is not in the list
C10_OutputFiltered ==
    opp_pc = "done" =>
        /\ \A j \in 1..Len(opportunities.items) :
              \E i \in Analysed :
                  /\ j \in Returned(i)
                  /\ opportunities.items[j].profit_percentage =
                         tasks[i].opportunity.profit_percentage
                  /\ Profitable(i)
                  /\ tasks[i].validate_trade = "True"
                  /\ Acceptable(risk_manager, tasks[i].entry_price,
                                tasks[i].position_size, tasks[i].stop_loss)
                  /\ opportunities.items[j].stop_loss = PyFloat(tasks[i].stop_loss)
        /\ \A i \in 1..Len(tasks) :
              (i \notin Analysed \/ ~Profitable(i) \/ ~RiskAccepts(i))
                  => Returned(i) = {}

\* A returned list with an accepted opportunity, while another candidate that
\* passed the profit filter was rejected by the risk rules and is not listed
C10_Witness ==
    /\ opp_pc = "done"
    /\ Len(opportunities.items) >= 1
    /\ \E i \in Analysed : Profitable(i) /\ ~RiskAccepts(i) /\ Returned(i) = {}

(***************************************************************************)
(* risk_manager.AdvancedRiskManager: the methods that change its state     *)
(***************************************************************************)
\* self.daily_pnl += pnl
update_daily_pnl(rm, pnl) == [rm EXCEPT !.daily_pnl = DecAdd(rm.daily_pnl, pnl)]

\* self.daily_pnl = Decimal('0')
reset_daily_pnl(rm) == [rm EXCEPT !.daily_pnl = DecZero]

\* (self.peak_value - account_value) / self.peak_value while the peak is 0:
\* the division raises, 0 / 0 as InvalidOperation, x / 0 as DivisionByZero
drawdown_raises(rm, account_value) ==
    [rm |-> rm,
     raised |-> TRUE,
     returned |-> IF DecIsZero(account_value) THEN "raised InvalidOperation"
                  ELSE "raised DivisionByZero"]

\* update_drawdown once the peak is known: the drawdown, and whether it is
\* within max_drawdown
drawdown_from_peak(rm, account_value, peak, drawdown) ==
    [rm |-> [rm EXCEPT !.peak_value = peak, !.current_drawdown = drawdown],
     raised |-> FALSE,
     returned |-> ~DecLess(rm.max_drawdown, drawdown)]

new_peak(rm, account_value, peak) ==
    IF DecIsZero(peak) THEN drawdown_raises(rm, account_value)
    ELSE drawdown_from_peak(rm, account_value, peak,
                            DecDiv(DecSub(peak, account_value), peak))

\* update_drawdown: the manager afterwards and what the call returned
update_drawdown(rm, account_value) ==
    new_peak(rm, account_value,
             IF DecLess(rm.peak_value, account_value) THEN account_value
             ELSE rm.peak_value)

(***************************************************************************)
(* The risk manager of the analyzer called method by method.  A call runs  *)
(* to its return; the caller takes the result before the next call.        *)
(***************************************************************************)
MaxPnlUpdates == 2

MaxValueUpdates == 2

\* Realized results of a day: two losses of 250 reach the 500 that
\* max_daily_loss allows on the balance of 10000
PnlAmounts == {DecOfInt(-250), DecOf(-6, -2), DecOfInt(490)}

AccountValues == {DecZero, DecOfInt(10000), DecOfInt(9000), DecOfInt(8900)}

TradeEntries == {DecOfInt(100)}

TradeSizes == {DecOfInt(10), DecOfInt(100), DecOfInt(1000), DecOfInt(1001)}

TradeStops == {DecOfInt(80), DecOfInt(98), DecOf(998, -1), DecOfInt(101)}

StopEntries == {DecOfInt(100), DecOf(3333, -4)}

Volatilities == {DecZero, DecOf(5, -3), DecOf(1, -2), DecOf(5, -1), DecOf(6, -1)}

RiskInit ==
    /\ DriverIdle
    /\ risk_manager \in {analyzer_risk_manager(an) : an \in Configs}
    /\ analyzer = None
    /\ main_second_results = <<>>
    /\ tasks = <<>>
    /\ opportunities = None
    /\ opp_pc = "idle"
    /\ RiskIdle
    /\ CycleIdle
    /\ ScreenIdle
    /\ CoinIdle
    /\ FillIdle

UpdateDailyPnl ==
    /\ risk_call = None
    /\ Len(pnl_log) < MaxPnlUpdates
    /\ \E pnl \in PnlAmounts :
          /\ risk_manager' = update_daily_pnl(risk_manager, pnl)
          /\ pnl_log' = Append(pnl_log, pnl)
          /\ risk_call' = [method |-> "update_daily_pnl", args |-> <<pnl>>,
                           returned |-> None]
    /\ UNCHANGED <<analyzer, main_second_results, tasks, opportunities, opp_pc,
                   value_log, trades_added, screenVars, coinVars, fillVars, cycleVars, driverVars>>

ResetDailyPnl ==
    /\ risk_call = None
    /\ risk_manager' = reset_daily_pnl(risk_manager)
    /\ pnl_log' = <<>>
    /\ risk_call' = [method |-> "reset_daily_pnl", args |-> <<>>, returned |-> None]
    /\ UNCHANGED <<analyzer, main_second_results, tasks, opportunities, opp_pc,
                   value_log, trades_added, screenVars, coinVars, fillVars, cycleVars, driverVars>>

UpdateDrawdown ==
    /\ risk_call = None
    /\ Len(value_log) < MaxValueUpdates
    /\ \E account_value \in AccountValues :
          \E r \in {update_drawdown(risk_manager, account_value)} :
             /\ risk_manager' = r.rm
             /\ value_log' = Append(value_log, account_value)
             /\ risk_call' = [method |-> "update_drawdown", args |-> <<account_value>>,
                              raised |-> r.raised, returned |-> r.returned]
    /\ UNCHANGED <<analyzer, main_second_results, tasks, opportunities, opp_pc,
                   pnl_log, trades_added, screenVars, coinVars, fillVars, cycleVars, driverVars>>

ValidateTrade ==
    /\ risk_call = None
    /\ \E entry_price \in TradeEntries, position_size \in TradeSizes,
          stop_loss \in TradeStops :
          risk_call' = [method |-> "validate_trade",
                        args |-> <<entry_price, position_size, stop_loss,
                                   account_balance>>,
                        returned |-> validate_trade(risk_manager, entry_price,
                                                    position_size, stop_loss,
                                                    account_balance)]
    /\ UNCHANGED <<analyzer, risk_manager, main_second_results, tasks, opportunities,
                   opp_pc, pnl_log, value_log, trades_added, screenVars, coinVars,
                   fillVars, cycleVars, driverVars>>

OptimalStopLoss ==
    /\ risk_call = None
    /\ \E entry_price \in StopEntries, historical_volatility \in Volatilities :
          risk_call' = [method |-> "calculate_optimal_stop_loss",
                        args |-> <<entry_price, historical_volatility>>,
                        returned |-> calculate_optimal_stop_loss(
                                         risk_manager, entry_price,
                                         historical_volatility)]
    /\ UNCHANGED <<analyzer, risk_manager, main_second_results, tasks, opportunities,
                   opp_pc, pnl_log, value_log, trades_added, screenVars, coinVars,
                   fillVars, cycleVars, driverVars>>

\* The caller has the result
RiskReturn ==
    /\ risk_call # None
    /\ risk_call' = None
    /\ UNCHANGED <<analyzer, risk_manager, main_second_results, tasks, opportunities,
                   opp_pc, pnl_log, value_log, trades_added, screenVars, coinVars,
                   fillVars, cycleVars, driverVars>>

RiskNext ==
    \/ UpdateDailyPnl
    \/ ResetDailyPnl
    \/ UpdateDrawdown
    \/ ValidateTrade
    \/ OptimalStopLoss
    \/ RiskReturn

SpecRisk == RiskInit /\ [][RiskNext]_vars

(***************************************************************************)
(* Properties of the risk manager                                          *)
(***************************************************************************)
\* The call that has just returned is a call of method
Called(method) == IF risk_call = None THEN FALSE ELSE risk_call.method = method

\* What the day has lost so far: nothing on a day in profit
RealizedLoss(rm) == IF rm.daily_pnl.neg THEN DecNeg(rm.daily_pnl) ELSE DecZero

\* (entry_price - stop_loss) * position_size of a validate_trade call
PotentialLoss(args) == DecMul(DecSub(args[1], args[3]), args[2])

\* C11 (as stated): validate_trade returns true exactly when the size is at most
\* max_position_size, the potential loss at most account_balance *
\* max_loss_percentage, the day's realized loss plus the potential loss at most
\* account_balance * max_daily_loss, and trading is not paused
C11_ValidateTrade ==
    Called("validate_trade") =>
        (risk_call.returned <=>
            /\ DecLeq(risk_call.args[2], risk_manager.max_position_size)
            /\ DecLeq(PotentialLoss(risk_call.args),
                      DecMul(risk_call.args[4], risk_manager.max_loss_percentage))
            /\ DecLeq(DecAdd(RealizedLoss(risk_manager), PotentialLoss(risk_call.args)),
                      DecMul(risk_call.args[4], risk_manager.max_daily_loss))
            /\ ~should_pause_trading(risk_manager))

\* The realized loss of the day has reached max_daily_loss * account_balance
DailyLossReached ==
    DecLeq(DecMul(risk_manager.max_daily_loss, account_balance),
           DecNeg(risk_manager.daily_pnl))

\* C12: in every state reached by update_daily_pnl calls in which the realized
\* daily loss is at least max_daily_loss * account_balance, should_pause_trading()
\* is true and a validate_trade call returns false whatever its entry price,
\* size and stop-loss
C12_DailyLossGate ==
    DailyLossReached =>
        /\ should_pause_trading(risk_manager)
        /\ Called("validate_trade") => ~risk_call.returned

\* Two losses of 250: the loss is exactly 500, and a trade of 10 with its stop
\* above the entry, which no other rule rejects, is refused
C12_Witness ==
    /\ risk_manager.daily_pnl = DecOfInt(-500)
    /\ risk_manager.current_drawdown = DecZero
    /\ Called("validate_trade")
    /\ risk_call.args[2] = DecOfInt(10)
    /\ risk_call.args[3] = DecOfInt(101)
    /\ ~risk_call.returned

\* entry * (1 - 2 * volatility) and entry * (1 - max_loss_percentage)
StopByVolatility(entry, volatility) ==
    DecMul(DecSub(Dec1, DecAdd(volatility, volatility)), entry)

StopByCap(entry) == DecMul(DecSub(Dec1, risk_manager.max_loss_percentage), entry)

\* C13: calculate_optimal_stop_loss(entry, volatility) returns the larger of
\* entry * (1 - 2 * volatility) and entry * (1 - max_loss_percentage); for
\* entry > 0 and volatility >= 0 the stop lies between entry * (1 -
\* max_loss_percentage) and entry, so the loss per unit at the stop is at most
\* max_loss_percentage of the entry price
C13_OptimalStopLoss ==
    Called("calculate_optimal_stop_loss") =>
        /\ risk_call.returned \in {StopByVolatility(risk_call.args[1], risk_call.args[2]),
                                   StopByCap(risk_call.args[1])}
        /\ DecLeq(StopByVolatility(risk_call.args[1], risk_call.args[2]),
                  risk_call.returned)
        /\ DecLeq(StopByCap(risk_call.args[1]), risk_call.returned)
        /\ DecLeq(risk_call.returned, risk_call.args[1])
        /\ DecLeq(DecSub(risk_call.args[1], risk_call.returned),
                  DecMul(risk_manager.max_loss_percentage, risk_call.args[1]))

\* A calm market, stop 99 by the volatility, after a volatile one, stop 98 by the cap
C13_Witness ==
    /\ Called("calculate_optimal_stop_loss")
    /\ risk_call.args = <<DecOfInt(100), DecOf(5, -3)>>
    /\ risk_call.returned = DecOfInt(99)

(***************************************************************************)
(* Decimal.sqrt(): the square root of the coefficient, two digits at a     *)
(* time, to DecPrec + 1 digits and rounded.                                *)
(***************************************************************************)
\* (20 * p + d) * d, where p2 is 2 * p
SqrtTrial(p2, d) == NatMulDigit(StripLead(Append(p2, d)), d)

\* The next digit of the root: the largest d with (20 * p + d) * d <= r
SqrtDigit(p2, r) ==
    CHOOSE d \in 0..9 :
        /\ ~NatLess(r, SqrtTrial(p2, d))
        /\ d = 9 \/ NatLess(r, SqrtTrial(p2, d + 1))

SqrtAdvance(p, p2, r, d) == <<StripLead(Append(p, d)), NatSub(r, SqrtTrial(p2, d))>>

SqrtBring(p, p2, r) == SqrtAdvance(p, p2, r, SqrtDigit(p2, r))

\* One step from the state st = <<root so far, remainder>> with the next two
\* digits of the radicand
SqrtStep(st, pair) == SqrtBring(st[1], NatAdd(st[1], st[1]), StripLead(st[2] \o pair))

\* The steps for the digit pairs lo..hi of m, in eight runs one after the other
RECURSIVE NatSqrtRun(_, _, _, _)
NatSqrtRun(m, lo, hi, st) ==
    IF lo > hi THEN st
    ELSE IF lo = hi THEN SqrtStep(st, <<m[2 * lo - 1], m[2 * lo]>>)
    ELSE LET n  == (hi - lo + 8) \div 8
             end(j) == IF lo + j * n - 1 < hi THEN lo + j * n - 1 ELSE hi
             s1 == NatSqrtRun(m, lo, end(1), st)
             s2 == NatSqrtRun(m, lo + n, end(2), s1)
             s3 == NatSqrtRun(m, lo + 2 * n, end(3), s2)
             s4 == NatSqrtRun(m, lo + 3 * n, end(4), s3)
             s5 == NatSqrtRun(m, lo + 4 * n, end(5), s4)
             s6 == NatSqrtRun(m, lo + 5 * n, end(6), s5)
             s7 == NatSqrtRun(m, lo + 6 * n, end(7), s6)
             s8 == NatSqrtRun(m, lo + 7 * n, end(8), s7)
         IN  <<s1, s2, s3, s4, s5, s6, s7, s8>>[8]

\* <<floor(sqrt(m)), m - floor(sqrt(m))^2>> for m of an even number of digits
NatSqrt(m) == NatSqrtRun(m, 1, Len(m) \div 2, <<<<>>, <<>>>>)

\* The root's coefficient followed by a digit that tells the rounding whether
\* the root is exact
SqrtCoeff(rr) == Append(rr[1], IF rr[2] = <<>> THEN 0 ELSE 1)

\* The root of dig * 10^exp with the coefficient shifted by shift digits; exp -
\* shift is even
SqrtShifted(dig, exp, shift) ==
    DecRound(FALSE,
             SqrtCoeff(NatSqrt(IF (Len(dig) + shift) % 2 = 1
                               THEN <<0>> \o dig \o Zeros(shift)
                               ELSE dig \o Zeros(shift))),
             ((exp - shift) \div 2) - 1)

\* The least shift that gives the root DecPrec + 1 digits and an integral exponent
SqrtShift(dig, exp) ==
    (2 * (DecPrec + 1) - Len(dig)) + ((exp - (2 * (DecPrec + 1) - Len(dig))) % 2)

\* Decimal.sqrt() of x >= 0
DecSqrt(x) == IF DecIsZero(x) THEN DecZero ELSE SqrtShifted(x.dig, x.exp, SqrtShift(x.dig, x.exp))

(***************************************************************************)
(* risk_manager.RiskManager: the trade history and the performance         *)
(* metrics.  A trade is a record with its profit, a float that holds a     *)
(* whole number.                                                           *)
(***************************************************************************)
\* The length at which add_trade_to_history starts to drop trades
HistoryCapacity == 1000

\* acc + xs[lo] + ... + xs[hi], added from left to right, in eight runs one
\* after the other
RECURSIVE DecSumRun(_, _, _, _)
DecSumRun(xs, lo, hi, acc) ==
    IF lo > hi THEN acc
    ELSE IF lo = hi THEN DecAdd(acc, xs[lo])
    ELSE LET n  == (hi - lo + 8) \div 8
             end(j) == IF lo + j * n - 1 < hi THEN lo + j * n - 1 ELSE hi
             s1 == DecSumRun(xs, lo, end(1), acc)
             s2 == DecSumRun(xs, lo + n, end(2), s1)
             s3 == DecSumRun(xs, lo + 2 * n, end(3), s2)
             s4 == DecSumRun(xs, lo + 3 * n, end(4), s3)
             s5 == DecSumRun(xs, lo + 4 * n, end(5), s4)
             s6 == DecSumRun(xs, lo + 5 * n, end(6), s5)
             s7 == DecSumRun(xs, lo + 6 * n, end(7), s6)
             s8 == DecSumRun(xs, lo + 7 * n, end(8), s7)
         IN  <<s1, s2, s3, s4, s5, s6, s7, s8>>[8]

\* winning_trades / len(self.trades_history), a float
calculate_win_rate(trades_history) ==
    IF trades_history = <<>> THEN DecZero
    ELSE PyFloat(DecDiv(DecOfInt(Cardinality({i \in 1..Len(trades_history) :
                                                 trades_history[i].profit > 0})),
                        DecOfInt(Len(trades_history))))

\* Decimal(str(total_profit / total_loss)) if total_loss != 0 else Decimal('1')
profit_ratio(total_profit, total_loss) ==
    IF total_loss # 0 THEN PyFloat(DecDiv(DecOfInt(total_profit), DecOfInt(total_loss)))
    ELSE Dec1

calculate_profit_factor(trades_history) ==
    profit_ratio(Sum([i \in 1..Len(trades_history) |-> trades_history[i].profit]),
                 Sum([i \in 1..Len(trades_history) |-> -trades_history[i].profit]))

\* [Decimal(str(trade['profit'])) for trade in self.trades_history]
trade_returns(trades_history, n) ==
    Digits([i \in 1..n |-> DecOfInt(trades_history[i].profit)], n)

\* numpy's _var on an array of n Decimals: x = arr - arrmean, x = x * conjugate(x)
np_squares(returns, n, arrmean) ==
    Digits([i \in 1..n |-> DecMul(DecSub(returns[i], arrmean),
                                  DecSub(returns[i], arrmean))], n)

\* umr_sum(x) / rcount
np_mean(x, n) == DecDiv(DecSumRun(x, 2, n, x[1]), DecOfInt(n))

\* np.std(returns): the root of the mean squared deviation from the mean, each
\* step in Decimal arithmetic
np_std(returns, n) == DecSqrt(np_mean(np_squares(returns, n, np_mean(returns, n)), n))

\* (avg_return - risk_free_rate) / std_dev, or 0 when std_dev is 0
sharpe_of(avg_return, std_dev) ==
    IF std_dev = DecZero THEN DecZero
    ELSE DecDiv(DecSub(avg_return, DecOf(2, -2)), std_dev)

sharpe_of_returns(returns, n) ==
    sharpe_of(DecDiv(DecSumRun(returns, 1, n, DecZero), DecOfInt(n)), np_std(returns, n))

calculate_sharpe_ratio(trades_history) ==
    IF trades_history = <<>> THEN DecZero
    ELSE sharpe_of_returns(trade_returns(trades_history, Len(trades_history)),
                           Len(trades_history))

\* The last trade before trade i that is not a loss, 0 when there is none
last_reset(trades_history, i) ==
    CHOOSE j \in 0..(i - 1) :
        /\ j = 0 \/ trades_history[j].profit >= 0
        /\ \A m \in (j + 1)..(i - 1) : trades_history[m].profit < 0

\* The values current_losses takes in the loop, one at each losing trade
loss_runs(trades_history) ==
    {i - last_reset(trades_history, i) :
        i \in {j \in 1..Len(trades_history) : trades_history[j].profit < 0}}

largest(S) == CHOOSE x \in S : \A y \in S : y <= x

\* max_losses at the end of the loop
calculate_max_consecutive_losses(trades_history) ==
    largest({0} \cup loss_runs(trades_history))

update_performance_metrics(rm) ==
    [rm EXCEPT !.performance_metrics =
        [win_rate               |-> calculate_win_rate(rm.trades_history),
         profit_factor          |-> calculate_profit_factor(rm.trades_history),
         sharpe_ratio           |-> calculate_sharpe_ratio(rm.trades_history),
         max_consecutive_losses |-> calculate_max_consecutive_losses(rm.trades_history)]]

\* A history that makes room by dropping the trade just added
add_trade_dropping_newest(rm, trade) ==
    update_performance_metrics(
        [rm EXCEPT !.trades_history =
            IF Len(rm.trades_history) + 1 > HistoryCapacity THEN rm.trades_history
            ELSE Append(rm.trades_history, trade)])

\* append, pop(0) above the capacity, update_performance_metrics
add_trade_to_history(rm, trade) ==
    update_performance_metrics(
        [rm EXCEPT !.trades_history =
            IF Len(rm.trades_history) + 1 > HistoryCapacity
            THEN Tail(Append(rm.trades_history, trade))
            ELSE Append(rm.trades_history, trade)])

(***************************************************************************)
(* The trade history under add_trade_to_history, and the sizing that reads *)
(* the performance metrics, from an empty history and from a history one   *)
(* trade short of its capacity.                                            *)
(***************************************************************************)
MaxAdds == 2

\* The profit of the trade number i of a long history: wins of 10, with two
\* losses of 5 in a row and one trade at 0 in every ten
PriorProfit(i) == IF i % 10 \in {3, 4} THEN -5 ELSE IF i % 10 = 7 THEN 0 ELSE 10

PriorTrades(n) == Digits([i \in 1..n |-> [profit |-> PriorProfit(i)]], n)

PriorLengths == {0, HistoryCapacity - 1}

TradeProfits == {10, -5, 0}

BaseSizes == {DecOfInt(100), DecOfInt(1000), DecOfInt(2500)}

\* The trades added since the start
AddsDone ==
    IF Len(trades_added) >= HistoryCapacity - 1
    THEN Len(trades_added) - (HistoryCapacity - 1)
    ELSE Len(trades_added)

\* A risk manager that has had the trades of prior added: its metrics are those
\* of the last update_performance_metrics, which depend on the history only
risk_manager_after(rm, prior) ==
    update_performance_metrics([rm EXCEPT !.trades_history = prior])

HistoryInit ==
    /\ DriverIdle
    /\ \E an \in Configs, n \in PriorLengths :
          \E prior \in {PriorTrades(n)} :
             /\ risk_manager = risk_manager_after(analyzer_risk_manager(an), prior)
             /\ trades_added = prior
    /\ analyzer = None
    /\ main_second_results = <<>>
    /\ tasks = <<>>
    /\ opportunities = None
    /\ opp_pc = "idle"
    /\ risk_call = None
    /\ pnl_log = <<>>
    /\ value_log = <<>>
    /\ CycleIdle
    /\ ScreenIdle
    /\ CoinIdle
    /\ FillIdle

AddTrade ==
    /\ risk_call = None
    /\ AddsDone < MaxAdds
    /\ \E profit \in TradeProfits :
          /\ risk_manager' = add_trade_to_history(risk_manager, [profit |-> profit])
          /\ trades_added' = Append(trades_added, [profit |-> profit])
          /\ risk_call' = [method |-> "add_trade_to_history",
                           args |-> <<[profit |-> profit]>>, returned |-> None]
    /\ UNCHANGED <<analyzer, main_second_results, tasks, opportunities, opp_pc,
                   pnl_log, value_log, screenVars, coinVars, fillVars, cycleVars, driverVars>>

PerformanceFactor ==
    /\ risk_call = None
    /\ risk_call' = [method |-> "calculate_performance_factor", args |-> <<>>,
                     returned |-> calculate_performance_factor(risk_manager)]
    /\ UNCHANGED <<analyzer, risk_manager, main_second_results, tasks, opportunities,
                   opp_pc, pnl_log, value_log, trades_added, screenVars, coinVars,
                   fillVars, cycleVars, driverVars>>

AdjustPositionSize ==
    /\ risk_call = None
    /\ \E base_position_size \in BaseSizes :
          risk_call' = [method |-> "adjust_position_size_based_on_performance",
                        args |-> <<base_position_size>>,
                        returned |-> adjust_position_size_based_on_performance(
                                         risk_manager, base_position_size)]
    /\ UNCHANGED <<analyzer, risk_manager, main_second_results, tasks, opportunities,
                   opp_pc, pnl_log, value_log, trades_added, screenVars, coinVars,
                   fillVars, cycleVars, driverVars>>

HistoryNext ==
    \/ AddTrade
    \/ PerformanceFactor
    \/ AdjustPositionSize
    \/ RiskReturn

SpecHistory == HistoryInit /\ [][HistoryNext]_vars

(***************************************************************************)
(* Properties of the trade history and of the sizing                       *)
(***************************************************************************)
\* C14: in every state of the risk manager calculate_performance_factor returns
\* a value between 0.5 and 1.5, and adjust_position_size_based_on_performance(base)
\* returns min(base * factor, max_position_size), which is at most
\* max_position_size
C14_AdjustedSize ==
    /\ Called("calculate_performance_factor") =>
          /\ DecLeq(DecOf(5, -1), risk_call.returned)
          /\ DecLeq(risk_call.returned, DecOf(15, -1))
    /\ Called("adjust_position_size_based_on_performance") =>
          /\ DecLeq(DecOf(5, -1), calculate_performance_factor(risk_manager))
          /\ DecLeq(calculate_performance_factor(risk_manager), DecOf(15, -1))
          /\ risk_call.returned =
                DecMin(DecMul(risk_call.args[1], calculate_performance_factor(risk_manager)),
                       risk_manager.max_position_size)
          /\ DecLeq(risk_call.returned, risk_manager.max_position_size)

\* A full history with a factor above 0.5: 2500 times the factor is above the
\* maximum, and the maximum is returned
C14_Witness ==
    /\ Called("adjust_position_size_based_on_performance")
    /\ Len(risk_manager.trades_history) = HistoryCapacity
    /\ DecLess(DecOf(5, -1), calculate_performance_factor(risk_manager))
    /\ risk_call.args[1] = DecOfInt(2500)
    /\ DecLess(risk_manager.max_position_size,
               DecMul(risk_call.args[1], calculate_performance_factor(risk_manager)))
    /\ risk_call.returned = risk_manager.max_position_size

\* The number of trades the history holds after n trades were added
Kept(n) == IF n < HistoryCapacity THEN n ELSE HistoryCapacity

\* C15: after any sequence of add_trade_to_history calls the history holds at
\* most 1000 trades, and it is exactly the most recent min(n, 1000) of the n
\* trades added, in the order they were added
C15_BoundedFifo ==
    /\ Len(risk_manager.trades_history) <= HistoryCapacity
    /\ risk_manager.trades_history =
          SubSeq(trades_added, Len(trades_added) - Kept(Len(trades_added)) + 1,
                 Len(trades_added))

\* The trade number 1001 has been added: the oldest trade is gone, the second
\* oldest is now the first and the new one the last
C15_Witness ==
    /\ Called("add_trade_to_history")
    /\ Len(trades_added) = HistoryCapacity + 1
    /\ Len(risk_manager.trades_history) = HistoryCapacity
    /\ risk_manager.trades_history[1] = trades_added[2]
    /\ risk_manager.trades_history[HistoryCapacity] = risk_call.args[1]

(***************************************************************************)
(* Properties of one cycle of analyze_arbitrage_opportunities              *)
(***************************************************************************)
\* The coroutines that returned an opportunity: validate_trade accepted
Accepted == {i \in 1..Len(tasks) : tasks[i].returned # None}

\* C16 (as stated): whenever a candidate is accepted (validate_trade returned
\* true and the opportunity is emitted), the risk manager's state afterwards
\* reflects that trade: it is recorded in the trade history, which later
\* evaluations read
C16_AcceptedTradeRecorded ==
    \A i \in Accepted :
        /\ risk_manager # analyzer_risk_manager(analyzer)
        /\ \E n \in 1..Len(risk_manager.trades_history) :
              risk_manager.trades_history[n] = tasks[i].returned

\* How many times x occurs in the returned list
Listed(x) == Cardinality({j \in 1..Len(opportunities.items) : opportunities.items[j] = x})

\* C17: the list returned by analyze_arbitrage_opportunities is ordered by
\* profit_percentage * risk_reward_ratio, largest first, and holds exactly
\* the opportunities that survived the cycle, each once
C17_Ranking ==
    opp_pc = "done" =>
        /\ \A j \in 1..(Len(opportunities.items) - 1) :
              ~KeyLess(sort_key(opportunities.items[j]),
                       sort_key(opportunities.items[j + 1]))
        /\ Len(opportunities.items) = Cardinality(Accepted)
        /\ \A i \in Accepted :
              Listed(tasks[i].returned) =
                  Cardinality({m \in Accepted : tasks[m].returned = tasks[i].returned})

\* Both candidates survive and the second has the larger product: it is
\* returned first
C17_Witness ==
    /\ opp_pc = "done"
    /\ Accepted = {1, 2}
    /\ opportunities.items = <<tasks[2].returned, tasks[1].returned>>
    /\ KeyLess(sort_key(tasks[1].returned), sort_key(tasks[2].returned))

\* What process_opportunity returns for candidate i when it is the only
\* candidate of a cycle and its fetch returns the same order books
AloneOutcome(i) ==
    process_opportunity(analyzer, analyzer_risk_manager(analyzer), tasks[i].orderbooks,
                        analyze_single_opportunity_wrapper(analyzer, main_second_results[i],
                                                           tasks[i].orderbooks)).returned

\* C18: a timeout, an exception, insufficient liquidity or a risk rejection in
\* the analysis of one candidate only leaves that candidate out of the output:
\* the cycle still returns its list, and every other candidate is emitted or
\* dropped as it would be in a cycle without the failing one, in every order in
\* which the coroutines resume
C18_CandidateIsolation ==
    /\ \A i \in 1..Len(tasks) :
          /\ tasks[i].fetch \in {"timeout", "error"} => tasks[i].returned = None
          /\ (tasks[i].pc = "done" /\ tasks[i].fetch = "returned")
                => tasks[i].returned = AloneOutcome(i)
    /\ opp_pc = "done" =>
          /\ opportunities.tag = "list"
          /\ \A i \in 1..Len(tasks) :
                IF tasks[i].fetch = "returned" /\ AloneOutcome(i) # None
                THEN /\ Cardinality(Returned(i)) = 1
                     /\ \A j \in Returned(i) : opportunities.items[j] = AloneOutcome(i)
                ELSE Returned(i) = {}

\* One candidate is accepted and the other fails on a
\* timeout: the list returned holds the accepted opportunity alone
C18_Witness ==
    /\ opp_pc = "done"
    /\ tasks[2].fetch = "timeout"
    /\ tasks[1].fetch = "returned"
    /\ tasks[1].returned # None
    /\ opportunities.items = <<tasks[1].returned>>

(***************************************************************************)
(* main: one cycle as the event loop runs it, from main_second (after the  *)
(* ticker screening) to the list analyze_arbitrage_opportunities returns.  *)
(* A coroutine suspended at an await resumes when its awaitable completes; *)
(* a wait_for also completes when its timer expires.  A response is a step *)
(* of an exchange and may never come.  The data a coroutine computes is    *)
(* left to the stages above: here it keeps or drops its candidate.         *)
(***************************************************************************)
NumCoins == 3

\* asyncio.Semaphore(5)
SemaphoreLimit == 5

\* The two exchanges of a coin and of a candidate
CycleExchanges == {"A", "B"}

\* process_coin suspended in volatility(coin), its price requests sent
PendingCoin == [pc |-> "volatility", fetch |-> [e \in CycleExchanges |-> "pending"],
                body |-> "pending", returned |-> "pending"]

\* An exception of the body returned as it is, not caught
coin_reraise(body) == body

\* process_coin's "except Exception: return None" around its whole body
coin_except(body) == IF body = "raised" THEN "None" ELSE body

\* process_opportunity suspended in collect_orderbooks, no request sent yet
PendingFetch ==
    [pc |-> "fetch", requests |-> [e \in CycleExchanges |-> "waiting"],
     semaphore |-> SemaphoreLimit, returned |-> "pending"]

\* The requests that hold a connection open
InFlight(task) == {e \in CycleExchanges : task.requests[e] = "in_flight"}

\* wait_for cancels collect_orderbooks: its requests end with it
cancelled(task) ==
    [task EXCEPT !.pc = "done", !.returned = "None",
                 !.requests = [e \in CycleExchanges |->
                                  IF task.requests[e] \in {"waiting", "in_flight"}
                                  THEN "cancelled" ELSE task.requests[e]]]

\* filtered_coins: one candidate for each coin that kept a combination
RECURSIVE filtered_coins(_)
filtered_coins(results) ==
    IF results = <<>> THEN <<>>
    ELSE filtered_coins(Front(results)) \o
         (IF results[Len(results)].returned = "combinations" THEN <<PendingFetch>>
          ELSE <<>>)

\* [opp for opp in await asyncio.gather(*tasks) if opp], as task numbers
RECURSIVE surviving(_)
surviving(ts) ==
    IF ts = <<>> THEN <<>>
    ELSE surviving(Front(ts)) \o
         (IF ts[Len(ts)].returned = "opportunity" THEN <<Len(ts)>> ELSE <<>>)

CycleInit ==
    /\ DriverIdle
    /\ cycle_pc = "second"
    /\ price_tasks = [c \in 1..NumCoins |-> PendingCoin]
    /\ fetch_tasks = <<>>
    /\ cycle_result = None
    /\ ScreenIdle
    /\ CoinIdle
    /\ FillIdle
    /\ OppIdle
    /\ RiskIdle

\* session.get(url) of fetch_price_data receives its response
PriceResponds(c, e) ==
    /\ cycle_pc = "second"
    /\ price_tasks[c].fetch[e] = "pending"
    /\ price_tasks' = [price_tasks EXCEPT ![c].fetch[e] = "prices"]
    /\ UNCHANGED <<cycle_pc, fetch_tasks, cycle_result, screenVars, coinVars, fillVars,
                   oppVars, riskVars, driverVars>>

\* session.get(url) raises: fetch_price_data returns []
PriceFails(c, e) ==
    /\ cycle_pc = "second"
    /\ price_tasks[c].fetch[e] = "pending"
    /\ price_tasks' = [price_tasks EXCEPT ![c].fetch[e] = "failed"]
    /\ UNCHANGED <<cycle_pc, fetch_tasks, cycle_result, screenVars, coinVars, fillVars,
                   oppVars, riskVars, driverVars>>

\* The gather of volatility(coin) completes and process_coin runs to its
\* return. Its body ends with combinations only when both exchanges have
\* metrics that pass the thresholds, and raises only where prices arrived
\* (calculate_all_metrics or a threshold comparison raises); the except turns
\* the exception into None
VolatilityReturns(c) ==
    /\ cycle_pc = "second"
    /\ price_tasks[c].pc = "volatility"
    /\ \A e \in CycleExchanges : price_tasks[c].fetch[e] # "pending"
    /\ \E body \in {"combinations", "None", "raised"} :
          /\ body = "combinations" =>
                \A e \in CycleExchanges : price_tasks[c].fetch[e] = "prices"
          /\ body = "raised" =>
                \E e \in CycleExchanges : price_tasks[c].fetch[e] = "prices"
          /\ price_tasks' = [price_tasks EXCEPT ![c].pc = "done",
                                                ![c].body = body,
                                                ![c].returned = coin_except(body)]
    /\ UNCHANGED <<cycle_pc, fetch_tasks, cycle_result, screenVars, coinVars, fillVars,
                   oppVars, riskVars, driverVars>>

\* The gather of second_spread completes, with the exception of a task if one
\* raised; analyze_arbitrage_opportunities creates a coroutine per candidate
SecondSpreadReturns ==
    /\ cycle_pc = "second"
    /\ \A c \in 1..Len(price_tasks) : price_tasks[c].pc = "done"
    /\ IF \E c \in 1..Len(price_tasks) : price_tasks[c].returned = "raised"
       THEN /\ cycle_pc' = "raised"
            /\ UNCHANGED fetch_tasks
       ELSE /\ fetch_tasks' = filtered_coins(price_tasks)
            /\ cycle_pc' = "third"
    /\ UNCHANGED <<price_tasks, cycle_result, screenVars, coinVars, fillVars, oppVars,
                   riskVars, driverVars>>

\* fetch_with_semaphore enters "async with semaphore" and sends its request
SendRequest(i, e) ==
    /\ cycle_pc = "third"
    /\ fetch_tasks[i].pc = "fetch"
    /\ fetch_tasks[i].requests[e] = "waiting"
    /\ fetch_tasks[i].semaphore > 0
    /\ fetch_tasks' = [fetch_tasks EXCEPT ![i].requests[e] = "in_flight",
                                          ![i].semaphore = @ - 1]
    /\ UNCHANGED <<cycle_pc, price_tasks, cycle_result, screenVars, coinVars, fillVars,
                   oppVars, riskVars, driverVars>>

\* The order book arrives; the semaphore is released
OrderbookResponds(i, e) ==
    /\ cycle_pc = "third"
    /\ fetch_tasks[i].pc = "fetch"
    /\ fetch_tasks[i].requests[e] = "in_flight"
    /\ fetch_tasks' = [fetch_tasks EXCEPT ![i].requests[e] = "answered",
                                          ![i].semaphore = @ + 1]
    /\ UNCHANGED <<cycle_pc, price_tasks, cycle_result, screenVars, coinVars, fillVars,
                   oppVars, riskVars, driverVars>>

\* The request fails: fetch_orderbook returns None
OrderbookFails(i, e) ==
    /\ cycle_pc = "third"
    /\ fetch_tasks[i].pc = "fetch"
    /\ fetch_tasks[i].requests[e] = "in_flight"
    /\ fetch_tasks' = [fetch_tasks EXCEPT ![i].requests[e] = "failed",
                                          ![i].semaphore = @ + 1]
    /\ UNCHANGED <<cycle_pc, price_tasks, cycle_result, screenVars, coinVars, fillVars,
                   oppVars, riskVars, driverVars>>

\* The gather of collect_orderbooks completes and process_opportunity runs to
\* its return: None when an order book is missing, when the analysis finds
\* no opportunity or when the risk manager refuses it
CollectReturns(i) ==
    /\ cycle_pc = "third"
    /\ fetch_tasks[i].pc = "fetch"
    /\ \A e \in CycleExchanges : fetch_tasks[i].requests[e] \in {"answered", "failed"}
    /\ \E returned \in {"opportunity", "None"} :
          /\ returned = "opportunity" =>
                \A e \in CycleExchanges : fetch_tasks[i].requests[e] = "answered"
          /\ fetch_tasks' = [fetch_tasks EXCEPT ![i].pc = "done",
                                                ![i].returned = returned]
    /\ UNCHANGED <<cycle_pc, price_tasks, cycle_result, screenVars, coinVars, fillVars,
                   oppVars, riskVars, driverVars>>

\* The timer of a wait_for expires while collect_orderbooks is awaited
WaitForExpires(i) ==
    /\ cycle_pc = "third"
    /\ fetch_tasks[i].pc = "fetch"
    /\ \E e \in CycleExchanges : fetch_tasks[i].requests[e] \in {"waiting", "in_flight"}
    /\ fetch_tasks' = [fetch_tasks EXCEPT ![i] = cancelled(fetch_tasks[i])]
    /\ UNCHANGED <<cycle_pc, price_tasks, cycle_result, screenVars, coinVars, fillVars,
                   oppVars, riskVars, driverVars>>

\* The gather of the cycle completes: the survivors are ranked and returned
RankAndReturn ==
    /\ cycle_pc = "third"
    /\ \A i \in 1..Len(fetch_tasks) : fetch_tasks[i].pc = "done"
    /\ cycle_result' = [tag |-> "list", items |-> surviving(fetch_tasks)]
    /\ cycle_pc' = "returned"
    /\ UNCHANGED <<price_tasks, fetch_tasks, screenVars, coinVars, fillVars, oppVars,
                   riskVars, driverVars>>

\* The steps of the exchanges
PriceArrives == \E c \in 1..Len(price_tasks), e \in CycleExchanges : PriceResponds(c, e)

PriceErrors == \E c \in 1..Len(price_tasks), e \in CycleExchanges : PriceFails(c, e)

OrderbookArrives ==
    \E i \in 1..Len(fetch_tasks), e \in CycleExchanges : OrderbookResponds(i, e)

OrderbookErrors == \E i \in 1..Len(fetch_tasks), e \in CycleExchanges : OrderbookFails(i, e)

\* The steps of the event loop
CoinResumes == \E c \in 1..Len(price_tasks) : VolatilityReturns(c)

RequestSent == \E i \in 1..Len(fetch_tasks), e \in CycleExchanges : SendRequest(i, e)

TaskResumes == \E i \in 1..Len(fetch_tasks) : CollectReturns(i)

TimerExpires == \E i \in 1..Len(fetch_tasks) : WaitForExpires(i)

CycleNext ==
    \/ PriceArrives
    \/ PriceErrors
    \/ CoinResumes
    \/ SecondSpreadReturns
    \/ RequestSent
    \/ OrderbookArrives
    \/ OrderbookErrors
    \/ TaskResumes
    \/ TimerExpires
    \/ RankAndReturn

SpecCycle == CycleInit /\ [][CycleNext]_vars

\* The event loop runs every coroutine that can resume and fires every timer
\* that is due; an exchange is under no obligation to answer
LiveCycle ==
    /\ SpecCycle
    /\ WF_vars(CoinResumes)
    /\ WF_vars(SecondSpreadReturns)
    /\ WF_vars(RequestSent)
    /\ WF_vars(TaskResumes)
    /\ WF_vars(TimerExpires)
    /\ WF_vars(RankAndReturn)

OrderbookStageReturns == (cycle_pc = "third") ~> (cycle_pc = "returned")

\* The requests in flight, counted over every candidate under analysis
AllInFlight ==
    {<<i, e>> \in (1..Len(fetch_tasks)) \X CycleExchanges : e \in InFlight(fetch_tasks[i])}

\* C20 (as stated): at every moment of a cycle the number of order-book
\* requests in flight, counted over all candidates analysed concurrently, is
\* at most the semaphore limit of 5
C20_BoundedRequests == Cardinality(AllInFlight) <= SemaphoreLimit

\* Within one collect_orderbooks call the limit holds
RequestsPerCall ==
    \A i \in 1..Len(fetch_tasks) :
        /\ Cardinality(InFlight(fetch_tasks[i])) <= SemaphoreLimit
        /\ fetch_tasks[i].pc = "fetch" =>
              fetch_tasks[i].semaphore =
                  SemaphoreLimit - Cardinality(InFlight(fetch_tasks[i]))

(***************************************************************************)
(* Further properties of the risk manager                                  *)
(***************************************************************************)
\* C25 (as stated): should_pause_trading() is true only when the realized
\* daily loss exceeds max_daily_loss * account_balance or current_drawdown
\* exceeds max_drawdown; below that amount and within the drawdown limit
\* trading is not paused
C25_PauseThreshold ==
    should_pause_trading(risk_manager) =>
        \/ DecLess(DecMul(risk_manager.max_daily_loss, account_balance),
                   DecNeg(risk_manager.daily_pnl))
        \/ DecLess(risk_manager.max_drawdown, risk_manager.current_drawdown)

\* The largest account value passed to update_drawdown so far
PeakSeen == CHOOSE v \in {value_log[n] : n \in 1..Len(value_log)} :
                \A n \in 1..Len(value_log) : DecLeq(value_log[n], v)

\* C27 (as stated): after any sequence of update_drawdown calls with
\* non-negative account values from the initial state no call raises,
\* peak_value is the largest value seen, current_drawdown is (peak_value - last
\* value) / peak_value and lies in [0, 1], and the call returns false exactly
\* when current_drawdown > max_drawdown, a state in which should_pause_trading()
\* is true
C27_DrawdownTracking ==
    Called("update_drawdown") =>
        /\ ~risk_call.raised
        /\ risk_manager.peak_value = PeakSeen
        /\ risk_manager.current_drawdown =
               DecDiv(DecSub(PeakSeen, risk_call.args[1]), PeakSeen)
        /\ DecLeq(DecZero, risk_manager.current_drawdown)
        /\ DecLeq(risk_manager.current_drawdown, Dec1)
        /\ ~risk_call.returned <=>
               DecLess(risk_manager.max_drawdown, risk_manager.current_drawdown)
        /\ ~risk_call.returned => should_pause_trading(risk_manager)

\* The calls that do not raise track the drawdown as described
DrawdownTracked ==
    (Called("update_drawdown") /\ risk_manager.peak_value # DecZero) =>
        /\ ~risk_call.raised
        /\ risk_manager.peak_value = PeakSeen
        /\ risk_manager.current_drawdown =
               DecDiv(DecSub(PeakSeen, risk_call.args[1]), PeakSeen)
        /\ ~risk_call.returned <=>
               DecLess(risk_manager.max_drawdown, risk_manager.current_drawdown)

\* C29: in every state of the risk manager the performance factor is at most
\* 1, so adjust_position_size_based_on_performance(base) <= base for every
\* base >= 0; with an empty trade history the factor is exactly 0.5
C29_NeverEnlarges ==
    /\ Called("calculate_performance_factor") =>
          /\ DecLeq(risk_call.returned, Dec1)
          /\ risk_manager.trades_history = <<>> => risk_call.returned = DecOf(5, -1)
    /\ Called("adjust_position_size_based_on_performance") =>
          DecLeq(risk_call.returned, risk_call.args[1])

\* A full history with seven wins in ten: the factor is between 0.5 and 1
\* and a base of 100 comes back smaller
C29_Witness ==
    /\ Called("adjust_position_size_based_on_performance")
    /\ Len(risk_manager.trades_history) = HistoryCapacity
    /\ risk_call.args[1] = DecOfInt(100)
    /\ DecLess(DecOfInt(50), risk_call.returned)
    /\ DecLess(risk_call.returned, DecOfInt(100))

\* x and y agree to nine significant digits, the room float arithmetic needs
Near(x, y) == DecLeq(DecAbs(DecSub(x, y)), DecMul(DecOf(1, -9), DecAbs(y)))

\* C28 (as stated): for every opportunity emitted by
\* analyze_arbitrage_opportunities the reported cost, revenue and profit
\* correspond to the reported volume: cost = volume * buy_price * (1 +
\* taker_fee), revenue = volume * sell_price * (1 - maker_fee) and profit =
\* revenue - cost, also after the performance-based size adjustment
C28_SelfConsistent ==
    \A i \in Accepted :
        /\ Near(tasks[i].returned.cost,
                DecMul(DecMul(tasks[i].returned.volume, tasks[i].returned.buy_price),
                       DecAdd(Dec1, taker_fee)))
        /\ Near(tasks[i].returned.revenue,
                DecMul(DecMul(tasks[i].returned.volume, tasks[i].returned.sell_price),
                       DecSub(Dec1, maker_fee)))
        /\ Near(tasks[i].returned.profit,
                DecSub(tasks[i].returned.revenue, tasks[i].returned.cost))

\* Before the size adjustment the amounts do correspond to the volume
ConsistentBeforeAdjustment ==
    \A i \in Analysed :
        /\ Near(tasks[i].opportunity.cost,
                DecMul(DecMul(tasks[i].opportunity.volume, tasks[i].opportunity.buy_price),
                       DecAdd(Dec1, taker_fee)))
        /\ Near(tasks[i].opportunity.revenue,
                DecMul(DecMul(tasks[i].opportunity.volume, tasks[i].opportunity.sell_price),
                       DecSub(Dec1, maker_fee)))
        /\ Near(tasks[i].opportunity.profit,
                DecSub(tasks[i].opportunity.revenue, tasks[i].opportunity.cost))

(***************************************************************************)
(* Further properties of the cycle                                         *)
(***************************************************************************)
\* The price-history requests in flight, counted over every coin and exchange
PricesInFlight ==
    {<<c, e>> \in (1..Len(price_tasks)) \X CycleExchanges :
        price_tasks[c].fetch[e] = "pending"}

\* C30 (as stated): during the volatility stage the number of price-history
\* requests in flight, counted over all coins and exchanges second_spread
\* processes concurrently, never exceeds a fixed limit, the semaphore limit
\* that bounds the order-book requests of a call
C30_BoundedPriceRequests == Cardinality(PricesInFlight) <= SemaphoreLimit

\* The pairs of the candidate whose two MetricSets both pass the table
ValidPairs ==
    IF metrics = None THEN {}
    ELSE {<<b, a>> \in Elems(candidate.bid_exchanges_in_range)
                           \X Elems(candidate.ask_exchanges_in_range) :
             /\ b \in DOMAIN metrics
             /\ a \in DOMAIN metrics
             /\ MetricSetPasses(metrics[b])
             /\ MetricSetPasses(metrics[a])}

\* The (buy_exchange, sell_exchange) pairs process_coin returned
ReturnedPairs ==
    IF coin_result = None THEN {}
    ELSE {<<coin_result.items[j].buy_exchange, coin_result.items[j].sell_exchange>> :
             j \in 1..Len(coin_result.items)}

\* C26: when process_coin has returned, every pair of the candidate whose two
\* exchanges both have a MetricSet with every metric present and in band is in
\* the result, whatever the MetricSets of the candidate's other exchanges are.
C26_PairIndependence == coin_pc = "done" => ValidPairs \subseteq ReturnedPairs

\* The coins whose process_coin body ended as said
CoinsWith(body) == {c \in 1..Len(price_tasks) : price_tasks[c].body = body}

\* C22: an exception raised while fetching or scoring one coin makes
\* process_coin return None for that coin only: second_spread never raises,
\* and it hands on one candidate for every coin whose body ended with valid
\* combinations, whatever happened to the other coins.
C22_FailureIsolation ==
    /\ cycle_pc # "raised"
    /\ \A c \in CoinsWith("raised") : price_tasks[c].returned = "None"
    /\ \A c \in CoinsWith("combinations") : price_tasks[c].returned = "combinations"
    /\ cycle_pc = "third" => Len(fetch_tasks) = Cardinality(CoinsWith("combinations"))

\* second_spread has returned: one coin raised, one lost a price request, and
\* the third is handed on
C22_Witness ==
    /\ cycle_pc = "third"
    /\ CoinsWith("raised") # {}
    /\ \E c \in CoinsWith("None") : \E e \in CycleExchanges : price_tasks[c].fetch[e] = "failed"
    /\ Len(fetch_tasks) = 1

(***************************************************************************)
(* fetch_data.fetching and find_common_coins.main: the ticker aggregation  *)
(***************************************************************************)
\* asyncio.Semaphore(10)
TickerSemaphore == 10

\* A price field of a ticker item: a number as text, or an empty string
RawPrices ==
    {[kind |-> "number", value |-> 100], [kind |-> "number", value |-> 104],
     [kind |-> "empty", value |-> 0]}

\* The decoded body of a ticker response: the expected shape with no item or
\* one, a dict that lacks an expected key, or a value of another type where
\* a dict or a list is expected
TickerPayloads ==
    {[shape |-> "ok", items |-> <<>>]}
    \cup {[shape |-> "ok", items |-> <<[symbol |-> "S1", bid |-> b, ask |-> a]>>] :
             b \in RawPrices, a \in RawPrices}
    \cup {[shape |-> s, items |-> <<>>] : s \in {"missing_key", "wrong_type"}}

\* float(value) if value else default
safe_float(value) == IF value.kind = "number" THEN value.value ELSE 0

\* extract_fields: the parser of the exchange over the payload; a KeyError is
\* caught and gives [], any other exception leaves the function
extract_fields(exchange, data) ==
    IF data.shape = "wrong_type" THEN [raised |-> TRUE, result |-> <<>>]
    ELSE IF data.shape = "missing_key" THEN [raised |-> FALSE, result |-> <<>>]
    ELSE [raised |-> FALSE,
          result |-> [j \in 1..Len(data.items) |->
                         [symbol |-> data.items[j].symbol,
                          bid_price |-> safe_float(data.items[j].bid),
                          ask_price |-> safe_float(data.items[j].ask)]]]

\* The tasks whose fetch_data returned a payload
Fetched == {e \in Exchanges : ticker_tasks[e].state = "done" /\ ticker_tasks[e].data # None}

\* The loop over the results of the gather, from exchange i of the order on:
\* [raised, exchanges_data]
RECURSIVE extract_all(_, _)
extract_all(i, acc) ==
    IF i > Len(ExchangeOrder) THEN [raised |-> FALSE, exchanges_data |-> acc]
    ELSE LET exchange == ExchangeOrder[i]
         IN  IF exchange \notin Fetched THEN extract_all(i + 1, acc)
             ELSE LET r == extract_fields(exchange, ticker_tasks[exchange].data)
                  IN  IF r.raised THEN [raised |-> TRUE, exchanges_data |-> acc]
                      ELSE extract_all(i + 1,
                               [e \in DOMAIN acc \cup {exchange} |->
                                   IF e = exchange THEN r.result ELSE acc[e]])

\* exchanges_data as common_coins walks it: an exchange without an entry
\* contributes no item
ItemsOf(data) == [e \in Exchanges |-> IF e \in DOMAIN data THEN data[e] ELSE <<>>]

FetchInit ==
    /\ ticker_tasks = [e \in Exchanges |-> [state |-> "waiting", data |-> None]]
    /\ ticker_semaphore = TickerSemaphore
    /\ fetching_pc = "gather"
    /\ fetching_result = None
    /\ PipelineIdle
    /\ MetricIdle
    /\ MainIdle

\* fetch_with_semaphore enters "async with semaphore" and fetch_data sends its request
TickerAcquire(e) ==
    /\ fetching_pc = "gather"
    /\ ticker_tasks[e].state = "waiting"
    /\ ticker_semaphore > 0
    /\ ticker_tasks' = [ticker_tasks EXCEPT ![e].state = "in_flight"]
    /\ ticker_semaphore' = ticker_semaphore - 1
    /\ UNCHANGED <<fetching_pc, fetching_result, pipelineVars, metricVars, mainVars>>

\* The response arrives and response.json() decodes it: fetch_data returns data
TickerResponds(e, data) ==
    /\ fetching_pc = "gather"
    /\ ticker_tasks[e].state = "in_flight"
    /\ ticker_tasks' = [ticker_tasks EXCEPT ![e] = [state |-> "done", data |-> data]]
    /\ ticker_semaphore' = ticker_semaphore + 1
    /\ UNCHANGED <<fetching_pc, fetching_result, pipelineVars, metricVars, mainVars>>

\* aiohttp.ClientError or asyncio.TimeoutError: fetch_data returns None
TickerFails(e) ==
    /\ fetching_pc = "gather"
    /\ ticker_tasks[e].state = "in_flight"
    /\ ticker_tasks' = [ticker_tasks EXCEPT ![e] = [state |-> "done", data |-> None]]
    /\ ticker_semaphore' = ticker_semaphore + 1
    /\ UNCHANGED <<fetching_pc, fetching_result, pipelineVars, metricVars, mainVars>>

\* Any other exception (a body that is no JSON makes response.json() raise
\* ValueError): handle_api_errors raises APIError out of the task
TickerRaises(e) ==
    /\ fetching_pc = "gather"
    /\ ticker_tasks[e].state = "in_flight"
    /\ ticker_tasks' = [ticker_tasks EXCEPT ![e] = [state |-> "raised", data |-> None]]
    /\ ticker_semaphore' = ticker_semaphore + 1
    /\ UNCHANGED <<fetching_pc, fetching_result, pipelineVars, metricVars, mainVars>>

\* asyncio.gather(*tasks) hands the exception of a task to fetching(), which
\* leaves with it; find_common_coins.main catches it and returns []
GatherRaises ==
    /\ fetching_pc = "gather"
    /\ \E e \in Exchanges : ticker_tasks[e].state = "raised"
    /\ fetching_pc' = "raised"
    /\ fetching_result' = [exchanges_data |-> <<>>, common |-> <<>>]
    /\ UNCHANGED <<ticker_tasks, ticker_semaphore, pipelineVars, metricVars, mainVars>>

\* The gather completes; the loop extracts the fields of every payload and
\* main builds the common coins, or an exception of extract_fields ends both
GatherReturns ==
    /\ fetching_pc = "gather"
    /\ \A e \in Exchanges : ticker_tasks[e].state = "done"
    /\ LET r == extract_all(1, <<>>)
       IN  IF r.raised
           THEN /\ fetching_pc' = "raised"
                /\ fetching_result' = [exchanges_data |-> <<>>, common |-> <<>>]
           ELSE /\ fetching_pc' = "returned"
                /\ fetching_result' =
                       [exchanges_data |-> r.exchanges_data,
                        common |-> common_coins(ItemsOf(r.exchanges_data))]
    /\ UNCHANGED <<ticker_tasks, ticker_semaphore, pipelineVars, metricVars, mainVars>>

RequestStarts == \E e \in Exchanges : TickerAcquire(e)

TickerArrives == \E e \in Exchanges, data \in TickerPayloads : TickerResponds(e, data)

TickerErrors == \E e \in Exchanges : TickerFails(e)

TickerBreaks == \E e \in Exchanges : TickerRaises(e)

FetchNext ==
    \/ RequestStarts
    \/ TickerArrives
    \/ TickerErrors
    \/ TickerBreaks
    \/ GatherRaises
    \/ GatherReturns

SpecFetch == FetchInit /\ [][FetchNext]_vars

\* The exchanges whose fetch returned a payload of the expected shape
Succeeded == {e \in Fetched : ticker_tasks[e].data.shape = "ok"}

\* The quotes of the exchanges whose fetch succeeded
QuotesOfSucceeded ==
    [e \in Succeeded |-> extract_fields(e, ticker_tasks[e].data).result]

\* C21 (as stated): whatever error the ticker fetch or the field extraction
\* of one exchange produces, the aggregation is not aborted: fetching()
\* returns the quotes of every exchange whose fetch succeeded and the common
\* coins are built from them
C21_ToleratesFailure ==
    /\ fetching_pc # "raised"
    /\ fetching_pc = "returned" =>
          /\ \A e \in Succeeded :
                /\ e \in DOMAIN fetching_result.exchanges_data
                /\ fetching_result.exchanges_data[e] = QuotesOfSucceeded[e]
          /\ fetching_result.common = common_coins(ItemsOf(QuotesOfSucceeded))

\* A network error, a timeout or a payload that lacks a key is tolerated:
\* when no task raised and no payload has another type, the quotes of every
\* exchange that succeeded are returned
NetworkFailureTolerated ==
    (/\ fetching_pc # "gather"
     /\ \A e \in Exchanges : ticker_tasks[e].state # "raised"
     /\ \A e \in Fetched : ticker_tasks[e].data.shape # "wrong_type") =>
        /\ fetching_pc = "returned"
        /\ \A e \in Succeeded : fetching_result.exchanges_data[e] = QuotesOfSucceeded[e]
        /\ fetching_result.common = common_coins(ItemsOf(QuotesOfSucceeded))

(***************************************************************************)
(* calculate_metrics.calculate_all_metrics.  Prices are small integers; a  *)
(* float result is kept as what the final filter asks of it: "finite",     *)
(* "zero" (finite and equal to 0), "nan" or "inf".  The returns of these   *)
(* prices (0, 1, -1/2) are exact in binary floating point, so equal        *)
(* returns have a deviation of exactly 0.                                  *)
(***************************************************************************)
MaxPrices == 8

PriceValues == {0, 1, 2}

PriceSeries == UNION {[1..n -> PriceValues] : n \in 0..MaxPrices}

\* calculate_log_returns: None for fewer than two prices or a price <= 0,
\* else np.diff(np.log(prices)), of which the size matters
calculate_log_returns(ps) ==
    IF Len(ps) < 2 \/ \E i \in 1..Len(ps) : ps[i] <= 0 THEN None
    ELSE [tag |-> "array", size |-> Len(ps) - 1]

\* np.diff(prices_np) / prices_np[:-1], each return as <<numerator, denominator>>
simple_returns(ps) == [i \in 1..Len(ps) - 1 |-> <<ps[i + 1] - ps[i], ps[i]>>]

\* returns[returns < 0]
negative_returns(returns) == SelectSeq(returns, LAMBDA r : r[1] < 0)

AllSame(returns) ==
    \A i, j \in 1..Len(returns) : returns[i][1] * returns[j][2] = returns[j][1] * returns[i][2]

\* np.nanstd(x, ddof=1): nan for fewer than two values
nanstd_ddof1(returns) ==
    IF Len(returns) < 2 THEN "nan"
    ELSE IF AllSame(returns) THEN "zero"
    ELSE "finite"

\* safe_division with the default nan: numerator / denominator if denominator != 0
safe_division(numerator, denominator) ==
    IF denominator = "zero" THEN "nan"
    ELSE IF numerator = "nan" \/ denominator = "nan" THEN "nan"
    ELSE "finite"

\* calculate_adr with period 24: the mean of no range is nan
calculate_adr(ps) == IF Len(ps) - 24 + 1 > 0 THEN "finite" ELSE "nan"

\* The largest drawdown is 0 when no price is below an earlier one
drawdown_of(ps) ==
    IF \E i, j \in 1..Len(ps) : i < j /\ ps[j] < ps[i] THEN "finite" ELSE "zero"

Constant(ps) == \A i, j \in 1..Len(ps) : ps[i] = ps[j]

\* np.corrcoef of two series: nan when one of them does not vary
corrcoef(x, y) == IF Constant(x) \/ Constant(y) THEN "nan" ELSE "finite"

\* calculate_hurst_exponent: lags = range(2, min(100, len(prices) // 2));
\* np.polyfit raises TypeError for an empty vector
calculate_hurst_exponent(ps) ==
    LET stop == IF Len(ps) \div 2 < 100 THEN Len(ps) \div 2 ELSE 100
        lags == {lag \in 2..(stop - 1) : TRUE}
    IN  IF lags = {} THEN "TypeError" ELSE "finite"

\* The while loop of calculate_fractal_dimension: lag doubles while n >= lag
RECURSIVE doubled_lag(_, _)
doubled_lag(n, lag) == IF n >= lag THEN doubled_lag(n, lag * 2) ELSE lag

calculate_fractal_dimension(ps) == IF doubled_lag(Len(ps), 2) > 2 THEN "finite" ELSE "nan"

\* The metrics dict in the order it is written
MetricNames ==
    <<"volatility", "adr", "mean_deviation", "roc", "max_drawdown", "sharpe_ratio",
      "var", "cvar", "calmar_ratio", "sortino_ratio", "momentum", "cumulative_return",
      "omega_ratio", "hurst_exponent", "autocorrelation", "kurtosis", "skewness",
      "fractal_dimension">>

\* One entry of the metrics dict
metric_value(name, ps) ==
    LET returns == simple_returns(ps)
        can_calculate_moments == ~Constant(ps)
    IN  CASE name = "adr" -> calculate_adr(ps)
          [] name = "sharpe_ratio" -> safe_division("finite", nanstd_ddof1(returns))
          [] name = "calmar_ratio" -> safe_division("finite", drawdown_of(ps))
          [] name = "sortino_ratio" ->
                 safe_division("finite", nanstd_ddof1(negative_returns(returns)))
          [] name = "momentum" -> IF Len(ps) >= 14 THEN "finite" ELSE "nan"
          [] name = "omega_ratio" -> safe_division("finite", "finite")
          [] name = "hurst_exponent" -> calculate_hurst_exponent(ps)
          [] name = "autocorrelation" ->
                 IF Len(ps) > 1 THEN corrcoef(SubSeq(ps, 1, Len(ps) - 1), Tail(ps))
                 ELSE "nan"
          [] name \in {"kurtosis", "skewness"} ->
                 IF can_calculate_moments THEN "finite" ELSE "nan"
          [] name = "fractal_dimension" -> calculate_fractal_dimension(ps)
          [] OTHER -> "finite"

\* calculate_all_metrics: {} for fewer than two log returns; an exception of
\* an entry leaves the function; the entries that are nan or inf are dropped
calculate_all_metrics(ps) ==
    LET log_returns == calculate_log_returns(ps)
    IN  IF log_returns = None \/ log_returns.size < 2
        THEN [raised |-> FALSE, metrics |-> <<>>]
        ELSE LET computed == [name \in Elems(MetricNames) |-> metric_value(name, ps)]
                 kept == {name \in DOMAIN computed : computed[name] \notin {"nan", "inf"}}
             IN  IF \E name \in DOMAIN computed : computed[name] = "TypeError"
                 THEN [raised |-> TRUE, metrics |-> <<>>]
                 ELSE [raised |-> FALSE, metrics |-> [name \in kept |-> computed[name]]]

MetricsInit ==
    /\ prices \in PriceSeries
    /\ metrics_pc = "call"
    /\ all_metrics = None
    /\ PipelineIdle
    /\ FetchIdle
    /\ MainIdle

CalculateAllMetrics ==
    /\ metrics_pc = "call"
    /\ all_metrics' = calculate_all_metrics(prices)
    /\ metrics_pc' = "done"
    /\ UNCHANGED <<prices, pipelineVars, fetchVars, mainVars>>

MetricsNext == CalculateAllMetrics

SpecMetrics == MetricsInit /\ [][MetricsNext]_vars

\* The call has returned or raised on a series of at least n positive prices
CalledOnPositive(n) ==
    /\ metrics_pc = "done"
    /\ Len(prices) >= n
    /\ \A i \in 1..Len(prices) : prices[i] > 0

\* C23 (as stated): for every series of two or more positive prices,
\* constant and very short ones included, calculate_all_metrics returns a map
\* without raising, and every value of the map is finite
C23_Totality ==
    CalledOnPositive(2) =>
        /\ ~all_metrics.raised
        /\ \A name \in DOMAIN all_metrics.metrics :
               all_metrics.metrics[name] \in {"finite", "zero"}

\* From six prices on the call does return a map of finite values, and two
\* prices give the empty map
TotalFromSixPrices ==
    /\ CalledOnPositive(6) =>
          /\ ~all_metrics.raised
          /\ \A name \in DOMAIN all_metrics.metrics :
                 all_metrics.metrics[name] \in {"finite", "zero"}
    /\ (CalledOnPositive(2) /\ Len(prices) = 2) => all_metrics = [raised |-> FALSE, metrics |-> <<>>]

(***************************************************************************)
(* spread_process_third.main: the loop around the cycles.  A cycle is the  *)
(* body of the try: main_second, analyze_arbitrage_opportunities and the   *)
(* printing of the result.                                                 *)
(***************************************************************************)
MaxCycles == 5

\* --interval, in seconds
Intervals == {0, 60}

\* The outcomes of the last MaxCycles cycles
remember(log, outcome) ==
    IF Len(log) < MaxCycles THEN Append(log, outcome) ELSE Append(Tail(log), outcome)

\* if not args.loop: break; otherwise await asyncio.sleep(args.interval)
after_cycle(loop, outcome) == IF ~loop THEN "exit" ELSE "sleep"

\* main has built the analyzer and awaits main_second() of its first cycle
MainInit ==
    /\ main_args \in [loop : BOOLEAN, interval : Intervals]
    /\ main_pc = "cycle"
    /\ cycles = 1
    /\ outcomes = <<>>
    /\ PipelineIdle
    /\ FetchIdle
    /\ MetricIdle

\* Both stages return and the opportunities are printed
CycleReturns ==
    /\ main_pc = "cycle"
    /\ outcomes' = remember(outcomes, "ok")
    /\ main_pc' = after_cycle(main_args.loop, "ok")
    /\ UNCHANGED <<main_args, cycles, pipelineVars, fetchVars, metricVars>>

\* An exception leaves the body of the try: except Exception logs it
CycleRaises ==
    /\ main_pc = "cycle"
    /\ outcomes' = remember(outcomes, "failed")
    /\ main_pc' = after_cycle(main_args.loop, "failed")
    /\ UNCHANGED <<main_args, cycles, pipelineVars, fetchVars, metricVars>>

\* asyncio.sleep(args.interval) ends and the while loop starts the next cycle
SleepExpires ==
    /\ main_pc = "sleep"
    /\ main_pc' = "cycle"
    /\ cycles' = IF cycles < MaxCycles THEN cycles + 1 ELSE cycles
    /\ UNCHANGED <<main_args, outcomes, pipelineVars, fetchVars, metricVars>>

MainNext == CycleReturns \/ CycleRaises \/ SleepExpires

SpecMain == MainInit /\ [][MainNext]_vars

\* The event loop fires the timer of the sleep.  A cycle ends when the
\* coroutines it awaits end, which needs the answers of the exchanges
\* (LiveCycle): no fairness is assumed for it
LiveMain == SpecMain /\ WF_vars(SleepExpires)

\* The behaviours in which every cycle ends
LiveMainAnswered == LiveMain /\ WF_vars(CycleReturns \/ CycleRaises)

LoopControl ==
    /\ [](main_args.loop => main_pc # "exit")
    /\ (main_args.loop /\ main_pc = "sleep") ~> (main_pc = "cycle")
    /\ [](~main_args.loop => (main_pc = "exit" <=> Len(outcomes) = 1))
    /\ [](~main_args.loop => cycles = 1)

====
